---- MODULE Spec2Model ----
(***************************************************************************)
(* Virtual-memory layer (frame table, swap manager) and system-call gate   *)
(* of tfdavids/pintos.  frame.c and swap.c are src/unnamed/part_001, the   *)
(* syscall gate is src/unnamed/part_000 (lines 1-599).  vm/page.c is not   *)
(* part of the sources; its operations are modelled from the design text.  *)
(*                                                                         *)
(* Addresses are scaled: a page holds PGSIZE bytes, user space is NUPages  *)
(* pages below PHYS_BASE and the machine word wraps at AddrMod.            *)
(***************************************************************************)
EXTENDS Integers, Sequences, FiniteSets, TLC

\* ---------------------------------------------------------------- bounds
PGSIZE == 16
NFrames == 2
num_swap_slots == 3
MaxFtable == 3
MaxCalls == 2
sectors_per_page == 2

\* ------------------------------------------------------------- constants
WordSize == 4
MAX_ARGS == 3
STDIN_FILENO == 0
STDOUT_FILENO == 1
SYS_HALT == 0
SYS_EXIT == 1
SYS_EXEC == 2
SYS_WAIT == 3
SYS_CREATE == 4
SYS_REMOVE == 5
SYS_OPEN == 6
SYS_FILESIZE == 7
SYS_READ == 8
SYS_WRITE == 9
SYS_SEEK == 10
SYS_TELL == 11
SYS_CLOSE == 12
SYS_MMAP == 13
SYS_MUNMAP == 14
SYS_CHDIR == 15
SYS_MKDIR == 16
SYS_READDIR == 17
SYS_ISDIR == 18
SYS_INUMBER == 19
\* syscall_arg_num[], indexed from 0.
syscall_arg_num == <<0, 1, 1, 1, 2, 1, 1, 1, 3, 3, 2, 1, 1, 2, 1, 1, 1, 2, 1, 1>>

\* The system call number is the 32-bit word read at line 94, written here
\* in two's complement: UINT32_MAX is 0xffffffff, INT32_MAX is 0x7fffffff.
INT32_MAX == 2^30 + (2^30 - 1)
UINT32_MAX == -1
\* The uint8_t values the memory around syscall_arg_num[] may hold: none,
\* fewer than args[] has room for, or more.
StrayBytes == {0, 1, MAX_ARGS + 1}

\* Where the table lies: TABLE_OFS bytes above PHYS_BASE (0xc002a010 in the
\* kernel built from these sources).  Physical memory is mapped at PHYS_BASE
\* for RAM_BYTES bytes (the 4 MB of the default machine), and KERNEL_SPAN
\* bytes above PHYS_BASE the 32-bit address wraps round to user space.
\* KFAULT stands for a page fault where a byte was expected.
TABLE_OFS == 172048
RAM_BYTES == 2^22
KERNEL_SPAN == 2^30
KFAULT == -2

\* The numbers syscall_arg_num[] has an entry for.
InTable(syscall_num) == syscall_num \in 0 .. (Len(syscall_arg_num) - 1)

\* Line 95 computes the address of syscall_arg_num[syscall_num] modulo 2^32
\* without a bounds check.  The byte lies in the table, in mapped kernel
\* memory around it, in kernel address space that has no memory behind it,
\* or, for an index that wraps round, in the address space of the process.
ArgNumMemory(syscall_num) ==
  IF InTable(syscall_num) THEN "table"
  ELSE IF syscall_num >= -TABLE_OFS /\ syscall_num < RAM_BYTES - TABLE_OFS THEN "kernel"
  ELSE IF syscall_num >= RAM_BYTES - TABLE_OFS /\ syscall_num < KERNEL_SPAN - TABLE_OFS
       THEN "unmapped"
  ELSE "user"

\* What the memory at that address may hold: kernel memory holds some
\* byte; user space holds a byte the process put there or has no page.
StrayAt(syscall_num) ==
  LET m == ArgNumMemory(syscall_num)
  IN IF m = "kernel" THEN StrayBytes
     ELSE IF m = "user" THEN StrayBytes \cup {KFAULT}
     ELSE {0}

\* Line 95: syscall_arg_num[syscall_num]; stray is what the memory holds
\* when the address is outside the table.
arg_num_read(syscall_num, stray) ==
  LET m == ArgNumMemory(syscall_num)
  IN IF m = "table" THEN syscall_arg_num[syscall_num + 1]
     ELSE IF m = "unmapped" THEN KFAULT
     ELSE stray

Threads == {"p1", "p2"}
NoThread == "none"

NUPages == 4
PHYS_BASE == NUPages * PGSIZE
AddrMod == (NUPages + 1) * PGSIZE
STACK_LIMIT == (NUPages - 1) * PGSIZE
DataPage == (NUPages - 2) * PGSIZE
UPages == {n * PGSIZE : n \in 0 .. (NUPages - 1)}
KPages == 1 .. NFrames
NULL == 0
Slots == 0 .. (num_swap_slots - 1)
BITMAP_ERROR == -1

SWAP == "SWAP"
FRAME == "FRAME"
FILE == "FILE"
NOT_PRESENT == "NOT_PRESENT"
NoPte == [loc |-> "none"]
NoMapping == -1
MAP_FAILED == -1

pg_round_down(a) == (a \div PGSIZE) * PGSIZE
pg_ofs(a) == a % PGSIZE
is_user_vaddr(a) == a < PHYS_BASE

VARIABLES spt, pagedir, ftable, ftable_lock, free_pages, swap_slots, filesys_lock, th,
          machine, swap_device, kmem, sw

vars == <<spt, pagedir, ftable, ftable_lock, free_pages, swap_slots, filesys_lock, th,
          machine, swap_device, kmem, sw>>

\* Page contents, tracked for the swap manager on its own (SpecSwap): the
\* sectors of the swap device, the sectors of each kernel page, and the
\* position of each thread inside swap_write_page / swap_load_page.
swapvars == <<swap_device, kmem, sw>>

\* The pages the 32-bit address space has: the user pages and the kernel
\* range above PHYS_BASE.  A supplementary page table is keyed by page
\* address and can hold a descriptor for any of them.
SptPages == {n * PGSIZE : n \in 0 .. NUPages}

\* File handles: the one the descriptor table holds for fd 2, and the one
\* file_reopen returns for it.
FdFile == 1
ReopenedFile == 2

\* A fresh page descriptor (supp_pte).  Stack growth and the loader install
\* a zero-backed writable one (file is NULL); supp_pt_page_alloc_file fills
\* in the file, the offset, the byte count and the writable flag.
NewPte(file, mapid) ==
  [loc |-> IF file # NULL THEN FILE ELSE NOT_PRESENT, kpage |-> NULL,
   swap_slot_index |-> 0, pinned |-> FALSE, file |-> file, mapping |-> mapid,
   ofs |-> 0, bytes |-> 0, writable |-> TRUE]

NoPd == [present |-> FALSE, accessed |-> FALSE]

\* Locals of a thread inside the kernel.  upage/kpage: the page being loaded
\* and the frame obtained for it; vt/vu/slot/pte: the victim's owner and page,
\* the swap slot claimed for it and whether its descriptor was found;
\* exams: the passes the victim scan of frame_evict made, and disturbed:
\* whether a page was accessed since the scan took ftable_lock; sector: the
\* loop counter i of swap_write_page / swap_load_page; pf_ret: where the
\* page-fault handler returns to ("idle": to user mode).
VmLocals ==
  [pc |-> "idle", upage |-> 0, kpage |-> NULL, vt |-> NoThread, vu |-> 0,
   slot |-> 0, pte |-> FALSE, fl_ret |-> "idle", ok |-> TRUE, exams |-> 0,
   disturbed |-> FALSE, sector |-> 0, pf_ret |-> "idle"]

\* Locals of the syscall gate.  esp/num/arg_num/i/args: syscall_handler;
\* ptr/len/curr_page/pos/evr_ret: the range or string being validated and
\* where validation returns to; status/exit_at: the exit status and the
\* place where a forced exit was decided; read_bytes: the byte count of the
\* transfer loop of sys_read / sys_write; copied: the bytes the running
\* file_read, file_write or putbuf has copied so far; moved: the bytes
\* file_read / file_write reported so far; eax: f->eax; file: the file
\* handle of sys_mmap; reopened: it is a handle from file_reopen, not yet
\* closed; keys0: the pages that had a descriptor when sys_mmap was entered.
NoArgs == [k \in 0 .. (MAX_ARGS - 1) |-> 0]

GateLocals ==
  [esp |-> 0, num |-> 0, arg_num |-> 0, i |-> 0, args |-> NoArgs,
   ptr |-> 0, len |-> 0, curr_page |-> 0, pos |-> 0, evr_ret |-> "idle",
   slen |-> 0, length |-> 0, status |-> 0, exit_at |-> "none", calls |-> 0,
   read_bytes |-> 0, moved |-> 0, copied |-> 0, eax |-> 0, file |-> NULL,
   reopened |-> FALSE, keys0 |-> {}]

IdleLocals == VmLocals @@ GateLocals

\* The sectors of the swap device (block_size (swap_device) of them) and
\* what a sector or a page can hold.
Sectors == 0 .. (num_swap_slots * sectors_per_page - 1)
\* The byte frame_evict fills an evicted frame with (line 108).
POISON == 204
SectorValues == {0, 1, POISON}
ZeroPage == [i \in 0 .. (sectors_per_page - 1) |-> 0]
PoisonPage == [i \in 0 .. (sectors_per_page - 1) |-> POISON]
\* The pages p1 swaps out: all zeros, or sectors that differ from their
\* neighbours.
RampPage == [i \in 0 .. (sectors_per_page - 1) |-> (i + 1) % 2]
UserPages == {ZeroPage, RampPage}

\* Locals of swap_write_page / swap_load_page: the slot index, the loop
\* counter i, the value returned; c is the page content handed to
\* swap_write_page and own says that the slot loaded is the one it returned.
SwIdle == [pc |-> "idle", slot |-> 0, i |-> 0, ret |-> TRUE, c |-> ZeroPage, own |-> FALSE,
           used |-> FALSE]

Init ==
  /\ spt = [t \in Threads |-> [u \in SptPages |->
              IF u = DataPage \/ u = STACK_LIMIT THEN NewPte(NULL, NoMapping) ELSE NoPte]]
  /\ pagedir = [t \in Threads |-> [u \in UPages |-> NoPd]]
  /\ ftable = << >>
  /\ ftable_lock = NoThread
  /\ free_pages = KPages
  /\ swap_slots = [s \in Slots |-> FALSE]
  /\ filesys_lock = NoThread
  /\ th = [t \in Threads |-> IdleLocals]
  /\ machine = "running"
  /\ swap_device = [n \in Sectors |-> 0]
  /\ kmem = [k \in KPages |-> ZeroPage]
  /\ sw = [t \in Threads |-> SwIdle]

Running == machine = "running"

\* Back in user mode: the kernel locals are dead, the count of system calls
\* issued so far is kept.
Idle(t) == [IdleLocals EXCEPT !.calls = th[t].calls]
Alive(t) == t \in Threads /\ th[t].pc # "exited"

HasPte(t, u) == spt[t][u].loc # "none"

Min(S) == CHOOSE x \in S : \A y \in S : x <= y


\* ------------------------------------------------- hardware page directory
\* A page table entry keeps its accessed bit (PTE_A) when the page is
\* unmapped: pagedir_clear_page clears only the present bit (PTE_P), and
\* the accessed bit is read and written whatever the present bit says.
pagedir_is_accessed(pd, t, u) == pd[t][u].accessed

pagedir_set_accessed(pd, t, u, b) == [pd EXCEPT ![t][u].accessed = b]

pagedir_clear_page(pd, t, u) == [pd EXCEPT ![t][u].present = FALSE]

pagedir_set_page(pd, t, u) == [pd EXCEPT ![t][u] = [present |-> TRUE, accessed |-> FALSE]]

\* ------------------------------------------------------------ frame table
\* evicted_frame of frame_evict while no victim has been found.
NoFrame == [kpage |-> NULL, upage |-> 0, t |-> NoThread, pinned |-> FALSE]

\* A pass that takes the front frame whatever its accessed bit.
EvictFront(ft, pd) ==
  [ftable |-> Tail(ft),
   pagedir |-> pagedir_clear_page(pd, Head(ft).t, Head(ft).upage),
   evicted_frame |-> Head(ft)]

\* frame_evict, lines 81-93: one pass of the while loop on a table that is
\* not empty.  The front frame is examined: with its accessed bit set the
\* bit is cleared and the frame goes to the back, else it is the victim,
\* leaves the table and has its mapping cleared.
EvictPass(ft, pd) ==
  LET frame == Head(ft) IN
  IF pagedir_is_accessed(pd, frame.t, frame.upage)
  THEN [ftable |-> Append(Tail(ft), frame),
        pagedir |-> pagedir_set_accessed(pd, frame.t, frame.upage, FALSE),
        evicted_frame |-> NoFrame]
  ELSE [ftable |-> Tail(ft),
        pagedir |-> pagedir_clear_page(pd, frame.t, frame.upage),
        evicted_frame |-> frame]

\* frame_free (kpage): palloc_free_page only; the table keeps its entry.
\* The result is the frame table and the user pool after the call.
frame_free(ft, fp, kpage) == [ftable |-> ft, free_pages |-> fp \cup {kpage}]

\* ----------------------------------------------------------- swap manager
\* bitmap_scan_and_flip (swap_slots, 0, 1, false)
bitmap_scan(bits) ==
  IF \E s \in Slots : ~bits[s] THEN Min({s \in Slots : ~bits[s]}) ELSE BITMAP_ERROR

\* bitmap_scan_and_flip without the flip: the slot found stays free.
bitmap_scan_only(bits) == [idx |-> bitmap_scan(bits), bits |-> bits]

\* bitmap_scan_and_flip (swap_slots, 0, 1, false), line 159: the first clear
\* bit is set and its index returned, or BITMAP_ERROR.
bitmap_scan_and_flip(bits) ==
  LET idx == bitmap_scan(bits) IN
  [idx |-> idx, bits |-> IF idx = BITMAP_ERROR THEN bits ELSE [bits EXCEPT ![idx] = TRUE]]

\* Sector numbering that lets neighbouring slots overlap.
swap_sector_packed(slot_index, i) == slot_index + i

\* Lines 170 and 189: the i-th sector of a slot.
swap_sector(slot_index, i) == slot_index * sectors_per_page + i

\* swap_load_page, lines 180-184: "false", "ok", or "panic" when bitmap_test
\* is handed an index equal to the bitmap size.
swap_load_check(bits, slot_index) ==
  IF slot_index > num_swap_slots THEN "false"
  ELSE IF slot_index \notin Slots THEN "panic"
  ELSE IF ~bits[slot_index] THEN "false"
  ELSE "ok"

\* -------------------------------------------------------------- helpers
Goto(t, label) == [th EXCEPT ![t].pc = label]

\* force_load returns to its caller.
FlReturn(t, result) ==
  [th EXCEPT ![t] = [@ EXCEPT !.pc = th[t].fl_ret, !.fl_ret = "idle", !.ok = result,
                              !.kpage = NULL, !.slot = 0]]

\* ------------------------------------------- accesses to user memory
\* The pages that intersect [ptr, ptr + len).
RangePages(ptr, len) == {u \in UPages : len > 0 /\ u + PGSIZE > ptr /\ u < ptr + len}

\* The pages of [ptr, ptr + len) that t has no mapping for: an access to one
\* of them is a page fault.
Unmapped(t, ptr, len) == {u \in RangePages(ptr, len) : ~pagedir[t][u].present}

\* The sectors of page u that hold a byte of [ptr, ptr + len).
SectorBytes == PGSIZE \div sectors_per_page
RangeSectors(u, ptr, len) ==
  {j \in 0 .. (sectors_per_page - 1) :
      u + (j + 1) * SectorBytes > ptr /\ u + j * SectorBytes < ptr + len}

\* The kernel stores c in the mapped bytes of [ptr, ptr + len) of t.  Page
\* contents are kept by the sector, whose bytes are not told apart: a store
\* to a byte gives its sector the value stored.
StoreUser(t, ptr, len, c) ==
  [k \in KPages |-> [j \in 0 .. (sectors_per_page - 1) |->
      IF \E u \in RangePages(ptr, len) :
            /\ pagedir[t][u].present /\ HasPte(t, u) /\ spt[t][u].kpage = k
            /\ j \in RangeSectors(u, ptr, len)
      THEN c ELSE kmem[k][j]]]

\* The hardware sets the accessed bit of every mapped page of t that an
\* access to [ptr, ptr + len) goes through.
TouchUser(t, ptr, len) ==
  [pagedir EXCEPT ![t] =
     [u \in UPages |-> IF u \in RangePages(ptr, len) /\ @[u].present
                       THEN [@[u] EXCEPT !.accessed = TRUE] ELSE @[u]]]

\* A page is accessed while a victim scan is under way: the scanning thread
\* is marked (the locals of the other threads stay as they are).
Disturb(L) ==
  [q \in Threads |-> IF L[q].pc = "fe_scan" THEN [L[q] EXCEPT !.disturbed = TRUE] ELSE L[q]]

\* Page fault in kernel mode (userprog/exception.c): t, inside a system
\* call, accesses its page u, which has no mapping.  A known descriptor is
\* pinned and demand-loaded and the access is retried at label; while the
\* descriptor says FRAME (an eviction of the page is under way) force_load
\* returns at once and the access faults again.  Without a descriptor the
\* fault is a kernel bug.  L and S: the locals of the threads and the
\* page tables when the fault is taken.
KernelFault(t, u, label, L, S) ==
  IF S[t][u].loc = "none"
  THEN /\ machine' = "panic"
       /\ UNCHANGED <<spt, th>>
  ELSE /\ S[t][u].loc # FRAME
       /\ spt' = [S EXCEPT ![t][u].pinned = TRUE]
       /\ th' = [L EXCEPT ![t] = [@ EXCEPT !.pc = "frame_alloc", !.upage = u,
                                           !.fl_ret = "pf_done", !.pf_ret = label]]
       /\ UNCHANGED machine

\* The kernel, inside a system call of t, reads [ptr, ptr + len) of t's
\* memory and meets a page that has no mapping: the bytes before that page
\* have been read, the page is faulted in and the read is made again at
\* label.
ReadFault(t, ptr, len, label) ==
  LET u == Min(Unmapped(t, ptr, len))
      pre == IF u > ptr THEN u - ptr ELSE 0
  IN /\ pagedir' = TouchUser(t, ptr, pre)
     /\ KernelFault(t, u, label, IF pre > 0 THEN Disturb(th) ELSE th, spt)

\* ------------------------------------------------------------- user mode
\* A user-mode access to a mapped page sets the hardware accessed bit.
UserAccess(t, u) ==
  /\ Running /\ th[t].pc = "idle"
  /\ pagedir[t][u].present /\ ~pagedir[t][u].accessed
  /\ pagedir' = [pagedir EXCEPT ![t][u].accessed = TRUE]
  /\ th' = Disturb(th)
  /\ UNCHANGED <<spt, ftable, ftable_lock, free_pages, swap_slots, filesys_lock, machine>>
  /\ UNCHANGED swapvars

\* Page fault in user mode on a page that is not mapped: a known descriptor
\* is pinned and demand-loaded, a stack page is grown first, anything else
\* kills the process.
page_fault(t, u) ==
  /\ Running /\ th[t].pc = "idle"
  /\ ~pagedir[t][u].present
  /\ LET have == HasPte(t, u)
         grow == ~have /\ u >= STACK_LIMIT
         pte  == IF have THEN spt[t][u] ELSE NewPte(NULL, NoMapping)
     IN IF have \/ grow
        THEN /\ pte.loc # FRAME
             /\ spt' = [spt EXCEPT ![t][u] = [pte EXCEPT !.pinned = TRUE]]
             /\ th' = [th EXCEPT ![t] = [@ EXCEPT !.pc = "frame_alloc", !.upage = u,
                                                  !.fl_ret = "pf_done"]]
        ELSE /\ th' = Goto(t, "thread_exit")
             /\ UNCHANGED spt
  /\ UNCHANGED <<pagedir, ftable, ftable_lock, free_pages, swap_slots, filesys_lock, machine>>
  /\ UNCHANGED swapvars

\* The page-fault handler after supp_pt_force_load: the pin is cleared.
\* After a fault in user mode the process goes on, or is killed when the
\* load failed; after a fault in kernel mode the access is retried, and a
\* failed load is a kernel bug (kill panics for a fault in kernel code).
pf_done(t) ==
  /\ Running /\ th[t].pc = "pf_done"
  /\ IF th[t].pf_ret = "idle"
     THEN /\ spt' = [spt EXCEPT ![t][th[t].upage].pinned = FALSE]
          /\ th' = IF th[t].ok THEN [th EXCEPT ![t] = Idle(t)] ELSE Goto(t, "thread_exit")
          /\ UNCHANGED machine
     ELSE IF th[t].ok
     THEN /\ spt' = [spt EXCEPT ![t][th[t].upage].pinned = FALSE]
          /\ th' = [th EXCEPT ![t] = [@ EXCEPT !.pc = th[t].pf_ret, !.pf_ret = "idle",
                                               !.upage = 0]]
          /\ UNCHANGED machine
     ELSE /\ machine' = "panic"
          /\ UNCHANGED <<spt, th>>
  /\ UNCHANGED <<pagedir, ftable, ftable_lock, free_pages, swap_slots, filesys_lock>>
  /\ UNCHANGED swapvars

\* ------------------------------------------------------------ frame_alloc
\* The frame entry as lines 58-60 fill it in.
NewFrame(t) == [kpage |-> th[t].kpage, upage |-> th[t].upage, t |-> t, pinned |-> FALSE]

\* Lines 40-52 with a page left in the user pool: palloc_get_page takes the
\* page and malloc returns the frame entry.  The entry is not in the table
\* until line 63.
frame_alloc(t) ==
  /\ Running /\ th[t].pc = "frame_alloc"
  /\ free_pages # {}
  /\ LET kpage == Min(free_pages)
     IN /\ free_pages' = free_pages \ {kpage}
        /\ th' = [th EXCEPT ![t] = [@ EXCEPT !.pc = "fa_push", !.kpage = kpage]]
  /\ UNCHANGED <<spt, pagedir, ftable, ftable_lock, swap_slots, filesys_lock, machine>>
  /\ UNCHANGED swapvars

\* Lines 45-50: malloc of the frame entry fails; NULL is returned and the
\* page taken from the pool is not given back.
frame_alloc_nomem(t) ==
  /\ Running /\ th[t].pc = "frame_alloc"
  /\ free_pages # {}
  /\ free_pages' = free_pages \ {Min(free_pages)}
  /\ th' = [th EXCEPT ![t] = [@ EXCEPT !.pc = "fl_load", !.kpage = NULL]]
  /\ UNCHANGED <<spt, pagedir, ftable, ftable_lock, swap_slots, filesys_lock, machine>>
  /\ UNCHANGED swapvars

\* Lines 58-64: lock_acquire waits for ftable_lock; with the lock held the
\* entry is pushed to the back of the table, for a fresh page and for an
\* evicted frame alike, and the lock is released.
fa_push(t) ==
  /\ Running /\ th[t].pc = "fa_push"
  /\ ftable_lock = NoThread
  /\ ftable' = Append(ftable, NewFrame(t))
  /\ th' = [th EXCEPT ![t] = [@ EXCEPT !.pc = "fl_load", !.slot = 0, !.pte = FALSE,
                                       !.vt = NoThread, !.vu = 0, !.exams = 0,
                                       !.disturbed = FALSE, !.sector = 0]]
  /\ UNCHANGED <<spt, pagedir, ftable_lock, free_pages, swap_slots, filesys_lock, machine>>
  /\ UNCHANGED swapvars

\* ------------------------------------------------------------ frame_evict
\* frame_alloc lines 40 and 53-55: the user pool is empty and frame_evict is
\* called.
fa_evict(t) ==
  /\ Running /\ th[t].pc = "frame_alloc"
  /\ free_pages = {}
  /\ th' = Goto(t, "frame_evict")
  /\ UNCHANGED <<spt, pagedir, ftable, ftable_lock, free_pages, swap_slots, filesys_lock, machine>>
  /\ UNCHANGED swapvars

\* frame_evict line 78: lock_acquire waits for ftable_lock and takes it,
\* whatever the pool holds by now.
frame_evict(t) ==
  /\ Running /\ th[t].pc = "frame_evict"
  /\ ftable_lock = NoThread
  /\ ftable_lock' = t
  /\ th' = [th EXCEPT ![t] = [@ EXCEPT !.pc = "fe_scan", !.exams = 0, !.disturbed = FALSE]]
  /\ UNCHANGED <<spt, pagedir, ftable, free_pages, swap_slots, filesys_lock, machine>>
  /\ UNCHANGED swapvars

\* The passes of the victim scan are counted up to MaxExams.
MaxExams == 2 * MaxFtable + 1

\* frame_evict lines 79-95: one pass of the while loop under ftable_lock.
\* list_front asserts a non-empty list.  The thread can be preempted
\* between two passes; when the pass has found the victim the lock is
\* released.
fe_scan(t) ==
  /\ Running /\ th[t].pc = "fe_scan"
  /\ IF ftable = << >>
     THEN /\ machine' = "panic"
          /\ UNCHANGED <<ftable, ftable_lock, pagedir, th>>
     ELSE LET r == EvictPass(ftable, pagedir)
              f == r.evicted_frame
              exams == IF th[t].exams < MaxExams THEN th[t].exams + 1 ELSE th[t].exams
          IN /\ ftable' = r.ftable
             /\ pagedir' = r.pagedir
             /\ IF f = NoFrame
                THEN /\ th' = [th EXCEPT ![t].exams = exams]
                     /\ UNCHANGED ftable_lock
                ELSE /\ th' = [th EXCEPT ![t] = [@ EXCEPT !.pc = "fe_lookup",
                                     !.kpage = f.kpage, !.vt = f.t, !.vu = f.upage,
                                     !.exams = exams]]
                     /\ ftable_lock' = NoThread
             /\ UNCHANGED machine
  /\ UNCHANGED <<spt, free_pages, swap_slots, filesys_lock>>
  /\ UNCHANGED swapvars

\* frame_evict line 97: the victim's descriptor is looked up in its owner's
\* table as it is now; swap_write_page then waits for swap_slots_lock.
fe_lookup(t) ==
  /\ Running /\ th[t].pc = "fe_lookup"
  /\ th' = [th EXCEPT ![t] = [@ EXCEPT !.pc = "fe_claim",
                                       !.pte = HasPte(th[t].vt, th[t].vu)]]
  /\ UNCHANGED <<spt, pagedir, ftable, ftable_lock, free_pages, swap_slots, filesys_lock, machine>>
  /\ UNCHANGED swapvars

\* swap_write_page lines 158-165: a slot is claimed under swap_slots_lock;
\* the kernel panics when none is free.
fe_claim(t) ==
  /\ Running /\ th[t].pc = "fe_claim"
  /\ LET r == bitmap_scan_and_flip(swap_slots)
         free_slot_index == r.idx
     IN IF free_slot_index = BITMAP_ERROR
        THEN /\ machine' = "panic"
             /\ UNCHANGED <<swap_slots, th>>
        ELSE /\ swap_slots' = r.bits
             /\ th' = [th EXCEPT ![t] = [@ EXCEPT !.pc = "fe_write", !.slot = free_slot_index,
                                                  !.sector = 0]]
             /\ UNCHANGED machine
  /\ UNCHANGED <<spt, pagedir, ftable, ftable_lock, free_pages, filesys_lock>>
  /\ UNCHANGED swapvars

\* swap_write_page lines 166-174: one pass of the loop; block_write sends
\* sector i of the frame to the device and waits for it.
fe_write(t) ==
  /\ Running /\ th[t].pc = "fe_write"
  /\ LET i == th[t].sector
     IN /\ swap_device' = [swap_device EXCEPT ![swap_sector(th[t].slot, i)] =
                              kmem[th[t].kpage][i]]
        /\ th' = [th EXCEPT ![t] = [@ EXCEPT !.sector = i + 1,
                     !.pc = IF i + 1 < sectors_per_page THEN "fe_write" ELSE "fe_pte"]]
  /\ UNCHANGED <<spt, pagedir, ftable, ftable_lock, free_pages, swap_slots, filesys_lock, machine, kmem, sw>>

\* frame_evict lines 100-110: the victim's descriptor gets the slot and
\* becomes SWAP (its kpage field is left as it was), and the frame is filled
\* with 0xcc.  A null pte faults in the kernel; a pte freed since line 97 is
\* written through a dangling pointer, which either faults or goes
\* unnoticed.
fe_pte(t) ==
  /\ Running /\ th[t].pc = "fe_pte"
  /\ LET live == th[t].pte /\ HasPte(th[t].vt, th[t].vu)
     IN
     \/ /\ live
        /\ spt' = [spt EXCEPT ![th[t].vt][th[t].vu] =
                      [@ EXCEPT !.swap_slot_index = th[t].slot, !.loc = SWAP]]
        /\ kmem' = [kmem EXCEPT ![th[t].kpage] = PoisonPage]
        /\ th' = Goto(t, "fa_push")
        /\ UNCHANGED machine
     \/ /\ ~live
        /\ machine' = "panic"
        /\ UNCHANGED <<spt, th, kmem>>
     \/ /\ ~live /\ th[t].pte
        /\ kmem' = [kmem EXCEPT ![th[t].kpage] = PoisonPage]
        /\ th' = Goto(t, "fa_push")
        /\ UNCHANGED <<spt, machine>>
  /\ UNCHANGED <<pagedir, ftable, ftable_lock, free_pages, swap_slots, filesys_lock, swap_device, sw>>

\* ---------------------------------------------- demand load (vm/page.c)
\* Install the mapping and mark the descriptor resident.
Install(t) ==
  /\ pagedir' = pagedir_set_page(pagedir, t, th[t].upage)
  /\ spt' = [spt EXCEPT ![t][th[t].upage] =
                [@ EXCEPT !.loc = FRAME, !.kpage = th[t].kpage, !.swap_slot_index = 0]]
  /\ th' = FlReturn(t, TRUE)

\* supp_pt_force_load after frame_alloc has returned: fill the frame from the
\* descriptor's current location.  A zero page is zero-filled and installed
\* at once; a swapped page starts swap_load_page (lines 180-184: the check);
\* a file page waits for the filesystem lock, and lock_acquire asserts that
\* the thread does not hold it already.
fl_load(t) ==
  /\ Running /\ th[t].pc = "fl_load"
  /\ LET pte == spt[t][th[t].upage] IN
     IF th[t].kpage = NULL
     THEN /\ th' = FlReturn(t, FALSE)
          /\ UNCHANGED <<spt, pagedir, filesys_lock, machine, kmem>>
     ELSE IF pte.loc = SWAP
     THEN LET c == swap_load_check(swap_slots, pte.swap_slot_index) IN
          /\ th' = IF c = "ok"
                   THEN [th EXCEPT ![t] = [@ EXCEPT !.pc = "swap_load_page",
                                                    !.slot = pte.swap_slot_index,
                                                    !.sector = 0]]
                   ELSE IF c = "false" THEN FlReturn(t, FALSE) ELSE th
          /\ machine' = IF c = "panic" THEN "panic" ELSE machine
          /\ UNCHANGED <<spt, pagedir, filesys_lock, kmem>>
     ELSE IF pte.loc = FILE
     THEN IF filesys_lock = t
          THEN /\ machine' = "panic"
               /\ UNCHANGED <<spt, pagedir, filesys_lock, th, kmem>>
          ELSE /\ filesys_lock = NoThread
               /\ filesys_lock' = t
               /\ th' = Goto(t, "fl_file")
               /\ UNCHANGED <<spt, pagedir, machine, kmem>>
     ELSE /\ kmem' = [kmem EXCEPT ![th[t].kpage] = ZeroPage]
          /\ Install(t)
          /\ UNCHANGED <<filesys_lock, machine>>
  /\ UNCHANGED <<ftable, ftable_lock, free_pages, swap_slots, swap_device, sw>>

\* swap_load_page lines 185-191: one pass of the loop; block_read waits for
\* the device and sector i of the slot is in the frame.
swap_load_page(t) ==
  /\ Running /\ th[t].pc = "swap_load_page"
  /\ LET i == th[t].sector
     IN /\ kmem' = [kmem EXCEPT ![th[t].kpage][i] = swap_device[swap_sector(th[t].slot, i)]]
        /\ th' = [th EXCEPT ![t] = [@ EXCEPT !.sector = i + 1,
                     !.pc = IF i + 1 < sectors_per_page THEN "swap_load_page"
                            ELSE "swap_load_clear"]]
  /\ UNCHANGED <<spt, pagedir, ftable, ftable_lock, free_pages, swap_slots, filesys_lock, machine>>
  /\ UNCHANGED <<swap_device, sw>>

\* swap_load_page lines 192-196: the bit of the slot is cleared under
\* swap_slots_lock and true is returned.
swap_load_clear(t) ==
  /\ Running /\ th[t].pc = "swap_load_clear"
  /\ swap_slots' = [swap_slots EXCEPT ![th[t].slot] = FALSE]
  /\ th' = [th EXCEPT ![t] = [@ EXCEPT !.pc = "fl_install", !.sector = 0]]
  /\ UNCHANGED <<spt, pagedir, ftable, ftable_lock, free_pages, filesys_lock, machine>>
  /\ UNCHANGED swapvars

\* supp_pt_force_load after swap_load_page has returned true: the page is
\* installed.
fl_install(t) ==
  /\ Running /\ th[t].pc = "fl_install"
  /\ Install(t)
  /\ UNCHANGED <<ftable, ftable_lock, free_pages, swap_slots, filesys_lock, machine>>
  /\ UNCHANGED swapvars

\* The file read of a file-backed page is done (file bytes are zeros here);
\* the filesystem lock is released and the page installed.
fl_file(t) ==
  /\ Running /\ th[t].pc = "fl_file"
  /\ filesys_lock' = NoThread
  /\ kmem' = [kmem EXCEPT ![th[t].kpage] = ZeroPage]
  /\ Install(t)
  /\ UNCHANGED <<ftable, ftable_lock, free_pages, swap_slots, machine>>
  /\ UNCHANGED <<swap_device, sw>>

\* --------------------------------------------------------- process exit
RECURSIVE FreeFrames(_, _, _)
FreeFrames(ft, fp, K) ==
  IF K = {} THEN [ftable |-> ft, free_pages |-> fp]
  ELSE LET k == Min(K)
           r == frame_free(ft, fp, k)
       IN FreeFrames(r.ftable, r.free_pages, K \ {k})

\* palloc_free_page asserts that the page is in use.
DoubleFree(t, U) ==
  \/ \E u \in U : spt[t][u].loc = FRAME /\ spt[t][u].kpage \in free_pages
  \/ \E u, v \in U : u # v /\ spt[t][u].loc = FRAME /\ spt[t][v].loc = FRAME
                        /\ spt[t][u].kpage = spt[t][v].kpage

\* supp_pt_page_free on the pages U of t, as one step: a resident page gives
\* its frame back through frame_free, a swapped page gives its slot back.
PageFree(t, U) ==
  IF DoubleFree(t, U)
  THEN /\ machine' = "panic"
       /\ UNCHANGED <<spt, pagedir, ftable, free_pages, swap_slots>>
  ELSE LET K == {spt[t][u].kpage : u \in {v \in U : spt[t][v].loc = FRAME}}
           S == {spt[t][u].swap_slot_index : u \in {v \in U : spt[t][v].loc = SWAP}}
           r == FreeFrames(ftable, free_pages, K)
       IN /\ ftable' = r.ftable
          /\ free_pages' = r.free_pages
          /\ swap_slots' = [s \in Slots |-> IF s \in S THEN FALSE ELSE swap_slots[s]]
          /\ spt' = [spt EXCEPT ![t] = [u \in SptPages |-> IF u \in U THEN NoPte ELSE @[u]]]
          /\ pagedir' = [pagedir EXCEPT ![t] =
                            [u \in UPages |-> IF u \in U THEN [@[u] EXCEPT !.present = FALSE]
                                              ELSE @[u]]]
          /\ UNCHANGED machine

thread_exit(t) ==
  /\ Running /\ th[t].pc = "thread_exit"
  /\ UNCHANGED ftable_lock
  /\ PageFree(t, SptPages)
  /\ th' = IF machine' = "panic" THEN th ELSE [th EXCEPT ![t] = [IdleLocals EXCEPT !.pc = "exited", !.status = th[t].status]]
  /\ UNCHANGED filesys_lock
  /\ UNCHANGED swapvars

\* ------------------------------------------------- pointer validation
\* The pages holding the bytes of the 32-bit word at a.
WordPages(a) == {pg_round_down((a + k) % AddrMod) : k \in 0 .. (WordSize - 1)}

PteAt(S, a) == IF pg_round_down(a) \in SptPages THEN S[pg_round_down(a)] ELSE NoPte

\* The stack-growth window below esp.
STACK_SLACK == 32

\* supp_pt_grow_stack_if_necessary (vm/page.c): a mapped page is left alone,
\* an unmapped page in the stack region at or above esp - 32 gets a fresh
\* zero descriptor, anything else fails.
supp_pt_grow_stack_if_necessary(S, esp, fault_page) ==
  IF PteAt(S, fault_page).loc # "none" THEN [s |-> S, ok |-> TRUE]
  ELSE IF /\ fault_page \in UPages /\ fault_page >= STACK_LIMIT
          /\ fault_page >= esp - STACK_SLACK
       THEN [s |-> [S EXCEPT ![fault_page] = NewPte(NULL, NoMapping)], ok |-> TRUE]
       ELSE [s |-> S, ok |-> FALSE]

\* ensure_valid_ptr up to the call of supp_pt_force_load: the page table of
\* the thread afterwards and "false", "true" (already resident) or "load".
ensure_valid_ptr(S, esp, ptr) ==
  IF ptr = NULL \/ ~is_user_vaddr(ptr) THEN [s |-> S, res |-> "false"]
  ELSE LET g == supp_pt_grow_stack_if_necessary(S, esp, pg_round_down(ptr)) IN
       IF ~g.ok THEN [s |-> S, res |-> "false"]
       ELSE IF PteAt(g.s, ptr).loc = "none" THEN [s |-> g.s, res |-> "false"]
       ELSE LET u == pg_round_down(ptr)
                S2 == [g.s EXCEPT ![u].pinned = TRUE]
            IN [s |-> S2, res |-> IF S2[u].loc = FRAME THEN "true" ELSE "load"]

\* unpin_ptr
unpin_ptr(S, ptr) ==
  IF PteAt(S, ptr).loc = "none" THEN [s |-> S, ok |-> FALSE]
  ELSE [s |-> [S EXCEPT ![pg_round_down(ptr)].pinned = FALSE], ok |-> TRUE]

\* unpin_range, the loop of lines 286-293.
RECURSIVE UnpinLoop(_, _, _)
UnpinLoop(S, curr_page, end) ==
  IF ~(curr_page < end) THEN [s |-> S, ok |-> TRUE]
  ELSE LET r == unpin_ptr(S, curr_page) IN
       IF ~r.ok THEN [s |-> S, ok |-> FALSE]
       ELSE UnpinLoop(r.s, curr_page + PGSIZE, end)

unpin_range(S, ptr, len) ==
  IF len = 0 THEN [s |-> S, ok |-> TRUE]
  ELSE UnpinLoop(S, pg_round_down(ptr), (ptr + len) % AddrMod)

\* unpin_string: the page of str, then every page boundary up to the
\* terminating zero at str + slen.
RECURSIVE UnpinStrLoop(_, _, _)
UnpinStrLoop(S, b, last) ==
  IF b > last THEN [s |-> S, ok |-> TRUE]
  ELSE LET r == unpin_ptr(S, b) IN
       IF ~r.ok THEN [s |-> r.s, ok |-> FALSE]
       ELSE UnpinStrLoop(r.s, b + PGSIZE, last)

unpin_string(S, str, slen) ==
  LET r == unpin_ptr(S, str) IN
  IF ~r.ok THEN [s |-> S, ok |-> FALSE]
  ELSE UnpinStrLoop(r.s, pg_round_down(str) + PGSIZE, str + slen)

\* ----------------------------------------------------- gate: call frames
CallRange(L, ptr, len, ret) ==
  [L EXCEPT !.pc = "evr", !.ptr = ptr, !.len = len, !.curr_page = pg_round_down(ptr),
            !.pos = 0, !.evr_ret = ret]

CallString(L, str, slen, ret) ==
  [L EXCEPT !.pc = "evs", !.ptr = str, !.slen = slen, !.curr_page = str,
            !.pos = 0, !.evr_ret = ret]

EvrReturn(t, b) ==
  [th EXCEPT ![t] = [@ EXCEPT !.pc = th[t].evr_ret, !.ok = b, !.ptr = 0, !.len = 0,
                              !.curr_page = 0, !.pos = 0, !.evr_ret = "idle",
                              !.upage = 0]]

\* exit_on (true): sys_exit (-1).
ExitOn(t) ==
  [th EXCEPT ![t] = [@ EXCEPT !.pc = "sys_exit", !.status = -1, !.exit_at = th[t].pc]]

\* exit_on_file without line 75: the lock stays with the exiting thread.
exit_on_file_keep(lock, t) == [lock |-> lock, panic |-> lock # t]

\* exit_on_file (true), lines 72-77: the ASSERT fails (panic) unless the
\* calling thread holds the filesystem lock; else the lock is released.
exit_on_file(lock, t) ==
  IF lock # t THEN [lock |-> lock, panic |-> TRUE]
  ELSE [lock |-> NoThread, panic |-> FALSE]

\* ------------------------------------------------- ensure_valid_range
\* Lines 220-224: a page failed; unpin_range (ptr, pos) under ASSERT.
EvrFail(t, S) ==
  LET u == unpin_range(S, th[t].ptr, th[t].pos) IN
  IF u.ok
  THEN /\ spt' = [spt EXCEPT ![t] = u.s]
       /\ th' = EvrReturn(t, FALSE)
       /\ UNCHANGED machine
  ELSE /\ machine' = "panic"
       /\ UNCHANGED <<spt, th>>

EvrAdvance(t) ==
  [th EXCEPT ![t] = [@ EXCEPT !.pc = "evr", !.curr_page = th[t].curr_page + PGSIZE,
                              !.pos = th[t].pos + 1, !.ok = TRUE, !.upage = 0]]

\* One turn of the loop of lines 217-227.
ensure_valid_range(t) ==
  /\ Running /\ th[t].pc = "evr"
  /\ LET L == th[t]
         end == (L.ptr + L.len) % AddrMod
     IN IF ~(L.curr_page < end)
        THEN /\ th' = EvrReturn(t, TRUE)
             /\ UNCHANGED <<spt, machine>>
        ELSE LET r == ensure_valid_ptr(spt[t], L.esp, L.curr_page) IN
             IF r.res = "false" THEN EvrFail(t, r.s)
             ELSE /\ spt' = [spt EXCEPT ![t] = r.s]
                  /\ th' = IF r.res = "true" THEN EvrAdvance(t)
                           ELSE [th EXCEPT ![t] = [@ EXCEPT !.pc = "frame_alloc",
                                     !.upage = L.curr_page, !.fl_ret = "evr_loaded"]]
                  /\ UNCHANGED machine
  /\ UNCHANGED <<pagedir, ftable, ftable_lock, free_pages, swap_slots, filesys_lock>>
  /\ UNCHANGED swapvars

\* supp_pt_force_load has returned to ensure_valid_ptr inside the loop.
evr_loaded(t) ==
  /\ Running /\ th[t].pc = "evr_loaded"
  /\ IF th[t].ok
     THEN /\ th' = EvrAdvance(t)
          /\ UNCHANGED <<spt, machine>>
     ELSE EvrFail(t, spt[t])
  /\ UNCHANGED <<pagedir, ftable, ftable_lock, free_pages, swap_slots, filesys_lock>>
  /\ UNCHANGED swapvars

\* ------------------------------------------------ ensure_valid_string
\* Lines 248-252: a later page failed at address b; read: the scan has
\* read the string up to b in this step.
EvsFail(t, S, b, read) ==
  LET u == unpin_range(S, th[t].ptr, b - th[t].ptr) IN
  IF u.ok
  THEN /\ spt' = [spt EXCEPT ![t] = u.s]
       /\ th' = IF read THEN Disturb(EvrReturn(t, FALSE)) ELSE EvrReturn(t, FALSE)
       /\ UNCHANGED machine
  ELSE /\ machine' = "panic"
       /\ UNCHANGED <<spt, th>>

\* pos = 0: the first ensure_valid_ptr (str).  Afterwards the scan for the
\* terminating zero (line 243): the kernel reads the string from where the
\* scan stands (curr_page) up to the zero at ptr + slen or to the next page
\* boundary b, which it validates before it reads on.  The read faults in
\* the kernel at a page that has lost its mapping and is made again after
\* the load.
ensure_valid_string(t) ==
  /\ Running /\ th[t].pc = "evs"
  /\ LET L == th[t]
         b == IF L.pos = 0 THEN L.ptr ELSE pg_round_down(L.curr_page) + PGSIZE
         n == IF L.pos = 0 THEN 0 ELSE Min({b, L.ptr + L.slen + 1}) - L.curr_page
         D(X) == IF n > 0 THEN Disturb(X) ELSE X
     IN IF Unmapped(t, L.curr_page, n) # {}
        THEN ReadFault(t, L.curr_page, n, "evs")
        ELSE /\ pagedir' = TouchUser(t, L.curr_page, n)
             /\ IF L.pos # 0 /\ b > L.ptr + L.slen
                THEN /\ th' = D(EvrReturn(t, TRUE))
                     /\ UNCHANGED <<spt, machine>>
                ELSE LET r == ensure_valid_ptr(spt[t], L.esp, b) IN
                     IF r.res = "false"
                     THEN IF L.pos = 0
                          THEN /\ spt' = [spt EXCEPT ![t] = r.s]
                               /\ th' = EvrReturn(t, FALSE)
                               /\ UNCHANGED machine
                          ELSE EvsFail(t, r.s, b, TRUE)
                     ELSE /\ spt' = [spt EXCEPT ![t] = r.s]
                          /\ th' = D(IF r.res = "true"
                                     THEN [th EXCEPT ![t] = [@ EXCEPT !.curr_page = b,
                                                                      !.pos = L.pos + 1]]
                                     ELSE [th EXCEPT ![t] = [@ EXCEPT !.pc = "frame_alloc",
                                               !.curr_page = b, !.upage = pg_round_down(b),
                                               !.fl_ret = "evs_loaded"]])
                          /\ UNCHANGED machine
  /\ UNCHANGED <<ftable, ftable_lock, free_pages, swap_slots, filesys_lock>>
  /\ UNCHANGED swapvars

evs_loaded(t) ==
  /\ Running /\ th[t].pc = "evs_loaded"
  /\ IF th[t].ok
     THEN /\ th' = [th EXCEPT ![t] = [@ EXCEPT !.pc = "evs", !.pos = th[t].pos + 1,
                                               !.upage = 0]]
          /\ UNCHANGED <<spt, machine>>
     ELSE IF th[t].pos = 0
          THEN /\ th' = EvrReturn(t, FALSE)
               /\ UNCHANGED <<spt, machine>>
          ELSE EvsFail(t, spt[t], th[t].curr_page, FALSE)
  /\ UNCHANGED <<pagedir, ftable, ftable_lock, free_pages, swap_slots, filesys_lock>>
  /\ UNCHANGED swapvars

\* ------------------------------------------------------------ workload
\* What the user programs put on their stacks.  File descriptor 2 stands for
\* any descriptor above the reserved ones; whether it names an open file is
\* decided when fd_table_get_file is called.
Fds == {STDIN_FILENO, STDOUT_FILENO, 2}
Bufs == {DataPage, DataPage + 1}
Lens == {0, 2, 2 * PGSIZE}
Strs == {DataPage + 1}
\* The string is empty, or has no zero below PHYS_BASE.
StrLens == {0, 2 * PGSIZE}
MapAddrs == {PGSIZE, DataPage - 1, DataPage}
FileLens == {0, 1, PGSIZE + 1}
Esps == {STACK_LIMIT, PHYS_BASE - 2 * WordSize}

ArgValues(num, i) ==
  IF num \in {SYS_READ, SYS_WRITE}
  THEN (IF i = 0 THEN Fds ELSE IF i = 1 THEN Bufs ELSE Lens)
  ELSE IF num \in {SYS_EXEC, SYS_CREATE, SYS_REMOVE, SYS_OPEN}
  THEN (IF i = 0 THEN Strs ELSE {0})
  ELSE IF num = SYS_MMAP THEN (IF i = 0 THEN {2} ELSE MapAddrs)
  ELSE IF num = SYS_MUNMAP THEN {PGSIZE}
  ELSE IF num = SYS_EXIT THEN {0, 2}
  ELSE IF num \in {SYS_FILESIZE, SYS_SEEK, SYS_TELL, SYS_CLOSE}
  THEN (IF i = 0 THEN {2} ELSE {0})
  ELSE {0}

\* ------------------------------------------------------- syscall_handler
\* The switch of lines 106-161.
HandlerPc(num) ==
  IF num = SYS_HALT THEN "sys_halt"
  ELSE IF num = SYS_EXIT THEN "sys_exit"
  ELSE IF num = SYS_EXEC THEN "sys_exec"
  ELSE IF num = SYS_WAIT THEN "sys_wait"
  ELSE IF num \in {SYS_CREATE, SYS_REMOVE, SYS_OPEN} THEN "sys_path"
  ELSE IF num \in {SYS_FILESIZE, SYS_SEEK, SYS_TELL, SYS_CLOSE} THEN "sys_fd"
  ELSE IF num = SYS_READ THEN "sys_read"
  ELSE IF num = SYS_WRITE THEN "sys_write"
  ELSE IF num = SYS_MMAP THEN "sys_mmap"
  ELSE IF num = SYS_MUNMAP THEN "sys_munmap"
  ELSE "sys_default"

\* Trap: lines 89-93, the syscall-number word is validated.
syscall_handler(t, esp) ==
  /\ Running /\ th[t].pc = "idle"
  /\ th[t].calls < MaxCalls
  /\ th' = [th EXCEPT ![t] = CallRange([@ EXCEPT !.esp = esp, !.calls = @ + 1],
                                       esp, WordSize, "sh_num")]
  /\ UNCHANGED <<spt, pagedir, ftable, ftable_lock, free_pages, swap_slots, filesys_lock, machine>>
  /\ UNCHANGED swapvars

\* Lines 94 and 102: the kernel reads the word at a through the mapping of
\* the process.  The read brings the kernel down when a byte of the word
\* lies in a page that is not a user page or has no descriptor.
WordFaults(S, a) == \E p \in WordPages(a) : p \notin UPages \/ S[p].loc = "none"

\* Lines 93-95: exit on failure, else read the number and its argument
\* count.  The read of the number sets the accessed bit of the stack page;
\* when the page has lost its mapping since it was validated, the read
\* page-faults in the kernel and is made again after the load.  A fault on
\* a page without a descriptor, or in the read of line 95, brings the
\* kernel down.
sh_num(t, num, stray) ==
  /\ Running /\ th[t].pc = "sh_num"
  /\ stray \in StrayAt(num)
  /\ IF ~th[t].ok
     THEN th' = ExitOn(t) /\ UNCHANGED <<spt, pagedir, machine>>
     ELSE LET arg_num == arg_num_read(num, stray)
              L == [th[t] EXCEPT !.num = num, !.arg_num = arg_num, !.i = 0]
          IN IF WordFaults(spt[t], th[t].esp)
             THEN machine' = "panic" /\ UNCHANGED <<spt, pagedir, th>>
             ELSE IF Unmapped(t, th[t].esp, WordSize) # {}
             THEN ReadFault(t, th[t].esp, WordSize, "sh_num")
             ELSE /\ pagedir' = TouchUser(t, th[t].esp, WordSize)
                  /\ IF arg_num = KFAULT
                     THEN machine' = "panic" /\ UNCHANGED th
                     ELSE /\ th' = [Disturb(th) EXCEPT ![t] =
                                     IF arg_num = 0 THEN [L EXCEPT !.pc = HandlerPc(num)]
                                     ELSE CallRange(L, L.esp + WordSize, WordSize, "sh_arg")]
                          /\ UNCHANGED machine
                  /\ UNCHANGED spt
  /\ UNCHANGED <<ftable, ftable_lock, free_pages, swap_slots, filesys_lock>>
  /\ UNCHANGED swapvars

\* Lines 98-103: one argument word has been validated; it is read through
\* the mapping of the process (the accessed bit is set; a page that has
\* lost its mapping since is faulted in and the read is made again) and
\* stored in args[i].  With i >= MAX_ARGS the store lands behind args[] on
\* the kernel stack: it either goes unnoticed or (smash) brings the kernel
\* down.
sh_arg(t, v, smash) ==
  /\ Running /\ th[t].pc = "sh_arg"
  /\ smash => (th[t].ok /\ th[t].i >= MAX_ARGS)
  /\ IF ~th[t].ok
     THEN th' = ExitOn(t) /\ UNCHANGED <<spt, pagedir, machine>>
     ELSE LET i == th[t].i
              L == IF i < MAX_ARGS THEN [th[t] EXCEPT !.args[i] = v, !.i = i + 1]
                   ELSE [th[t] EXCEPT !.i = i + 1]
              a == (th[t].esp + (i + 1) * WordSize) % AddrMod
          IN /\ v \in ArgValues(L.num, i)
             /\ IF WordFaults(spt[t], a)
                THEN machine' = "panic" /\ UNCHANGED <<spt, pagedir, th>>
                ELSE IF Unmapped(t, a, WordSize) # {}
                THEN ReadFault(t, a, WordSize, "sh_arg")
                ELSE /\ pagedir' = TouchUser(t, a, WordSize)
                     /\ th' = [Disturb(th) EXCEPT ![t] =
                                 IF smash THEN [L EXCEPT !.pc = "sh_smash"]
                                 ELSE IF i + 1 < L.arg_num
                                 THEN CallRange(L, L.esp + (i + 2) * WordSize, WordSize, "sh_arg")
                                 ELSE [L EXCEPT !.pc = HandlerPc(L.num)]]
                     /\ machine' = IF smash THEN "panic" ELSE machine
                     /\ UNCHANGED spt
  /\ UNCHANGED <<ftable, ftable_lock, free_pages, swap_slots, filesys_lock>>
  /\ UNCHANGED swapvars

\* Lines 162-168: the argument words are unpinned and the trap returns.
RECURSIVE UnpinArgs(_, _, _, _)
UnpinArgs(S, intr_esp, i, arg_num) ==
  IF i > arg_num THEN S
  ELSE UnpinArgs(unpin_range(S, intr_esp, WordSize).s, intr_esp + WordSize, i + 1, arg_num)

sh_unpin(t) ==
  /\ Running /\ th[t].pc = "sh_unpin"
  /\ spt' = [spt EXCEPT ![t] = UnpinArgs(spt[t], th[t].esp, 0, th[t].arg_num)]
  /\ th' = [th EXCEPT ![t] = Idle(t)]
  /\ UNCHANGED <<pagedir, ftable, ftable_lock, free_pages, swap_slots, filesys_lock, machine>>
  /\ UNCHANGED swapvars

\* --------------------------------------------------------------- handlers
sys_halt(t) ==
  /\ Running /\ th[t].pc = "sys_halt"
  /\ machine' = "halted"
  /\ UNCHANGED <<spt, pagedir, ftable, ftable_lock, free_pages, swap_slots, filesys_lock, th>>
  /\ UNCHANGED swapvars

\* sys_exit (status), lines 329-330: the status is stored in the thread and
\* thread_exit is entered.  exit_on passes -1, the EXIT call its argument.
sys_exit(t) ==
  /\ Running /\ th[t].pc = "sys_exit"
  /\ LET status == IF th[t].exit_at = "none" THEN th[t].args[0] ELSE -1
     IN th' = [th EXCEPT ![t] = [@ EXCEPT !.pc = "thread_exit", !.status = status]]
  /\ UNCHANGED <<spt, pagedir, ftable, ftable_lock, free_pages, swap_slots, filesys_lock, machine>>
  /\ UNCHANGED swapvars

\* What process_wait may return: -1, or the exit status of the child.
WaitResults == {-1, 0}

\* sys_wait, line 344: f->eax = process_wait (pid).
sys_wait(t, status) ==
  /\ Running /\ th[t].pc = "sys_wait"
  /\ th' = [th EXCEPT ![t] = [@ EXCEPT !.pc = "sh_unpin", !.eax = status]]
  /\ UNCHANGED <<spt, pagedir, ftable, ftable_lock, free_pages, swap_slots, filesys_lock, machine>>
  /\ UNCHANGED swapvars

\* The default case of the switch: exit_on (true).
sys_default(t) ==
  /\ Running /\ th[t].pc = "sys_default"
  /\ th' = ExitOn(t)
  /\ UNCHANGED <<spt, pagedir, ftable, ftable_lock, free_pages, swap_slots, filesys_lock, machine>>
  /\ UNCHANGED swapvars

\* unpin_string (str) as its callers run it (lines 299-318): the page of
\* str is unpinned, then the string is read up to its terminating zero and
\* every page boundary reached is unpinned before the scan reads on.  The
\* scan stands copied bytes into the string.  A page that has lost its
\* mapping is faulted in, after the pages up to it have been unpinned, and
\* the scan goes on at "sys_path_unpin" after the load; else the call ends
\* with the locals L.
UnpinString(t, L) ==
  LET cur == th[t].args[0] + th[t].copied
      n == th[t].slen + 1 - th[t].copied
      miss == Unmapped(t, cur, n)
  IN IF miss # {}
     THEN LET u == Min(miss)
              pre == IF u > cur THEN u - cur ELSE 0
              T == [IF pre > 0 THEN Disturb(L) ELSE L
                       EXCEPT ![t] = [@ EXCEPT !.pc = th[t].pc,
                                               !.copied = th[t].copied + pre]]
          IN /\ pagedir' = TouchUser(t, cur, pre)
             /\ KernelFault(t, u, "sys_path_unpin", T,
                            [spt EXCEPT ![t] = unpin_string(@, cur, pre).s])
     ELSE /\ pagedir' = TouchUser(t, cur, n)
          /\ spt' = [spt EXCEPT ![t] = unpin_string(@, cur, n - 1).s]
          /\ th' = Disturb([L EXCEPT ![t].copied = 0])
          /\ UNCHANGED machine

\* sys_exec, sys_create, sys_remove, sys_open: the path string is validated.
sys_path(t, slen) ==
  /\ Running /\ th[t].pc \in {"sys_exec", "sys_path"}
  /\ th' = [th EXCEPT ![t] = CallString(@, th[t].args[0], slen,
                                IF th[t].pc = "sys_exec" THEN "sys_exec_v" ELSE "sys_path_v")]
  /\ UNCHANGED <<spt, pagedir, ftable, ftable_lock, free_pages, swap_slots, filesys_lock, machine>>
  /\ UNCHANGED swapvars

\* What process_execute may return: TID_ERROR or the pid of the child.
ExecResults == {-1, 3}

\* sys_exec lines 336-338: exit on a bad string, else f->eax =
\* process_execute (file) and unpin_string, whose scan reads the string.
sys_exec_v(t, pid) ==
  /\ Running /\ th[t].pc = "sys_exec_v"
  /\ IF ~th[t].ok
     THEN /\ pid = -1
          /\ th' = ExitOn(t)
          /\ UNCHANGED <<spt, pagedir, machine>>
     ELSE UnpinString(t, [th EXCEPT ![t] = [@ EXCEPT !.pc = "sh_unpin", !.eax = pid]])
  /\ UNCHANGED <<ftable, ftable_lock, free_pages, swap_slots, filesys_lock>>
  /\ UNCHANGED swapvars

\* sys_create/sys_remove/sys_open: exit on a bad string, else lock_acquire.
sys_path_v(t) ==
  /\ Running /\ th[t].pc = "sys_path_v"
  /\ IF ~th[t].ok
     THEN /\ th' = ExitOn(t)
          /\ UNCHANGED filesys_lock
     ELSE /\ filesys_lock = NoThread
          /\ filesys_lock' = t
          /\ th' = Goto(t, "sys_path_fs")
  /\ UNCHANGED <<spt, pagedir, ftable, ftable_lock, free_pages, swap_slots, machine>>
  /\ UNCHANGED swapvars

\* What filesys_create and filesys_remove (a bool) and fd_table_open (a
\* descriptor or -1) may return.
PathResults(num) == IF num = SYS_OPEN THEN {-1, 2} ELSE {0, 1}

\* Lines 353-354, 363-364, 373-374: f->eax = filesys_create /
\* filesys_remove / fd_table_open, then lock_release.
sys_path_fs(t, res) ==
  /\ Running /\ th[t].pc = "sys_path_fs"
  /\ res \in PathResults(th[t].num)
  /\ filesys_lock' = NoThread
  /\ th' = [th EXCEPT ![t] = [@ EXCEPT !.pc = "sys_path_unpin", !.eax = res]]
  /\ UNCHANGED <<spt, pagedir, ftable, ftable_lock, free_pages, swap_slots, machine>>
  /\ UNCHANGED swapvars

\* Lines 355, 365, 375: unpin_string (file), after the lock was released;
\* also the rest of the unpin_string of sys_exec (line 338) after a page
\* fault in its scan.
sys_path_unpin(t) ==
  /\ Running /\ th[t].pc = "sys_path_unpin"
  /\ UnpinString(t, Goto(t, "sh_unpin"))
  /\ UNCHANGED <<ftable, ftable_lock, free_pages, swap_slots, filesys_lock>>
  /\ UNCHANGED swapvars

\* sys_filesize, sys_seek, sys_tell, sys_close: lock_acquire.
sys_fd(t) ==
  /\ Running /\ th[t].pc = "sys_fd"
  /\ filesys_lock = NoThread
  /\ filesys_lock' = t
  /\ th' = Goto(t, "sys_fd_fs")
  /\ UNCHANGED <<spt, pagedir, ftable, ftable_lock, free_pages, swap_slots, machine>>
  /\ UNCHANGED swapvars

\* What file_length (line 384) and file_tell (line 493) may return.
FdResults(num) ==
  IF num = SYS_FILESIZE THEN {1, PGSIZE + 1}
  ELSE IF num = SYS_TELL THEN {0, 1}
  ELSE {0}

\* fd_table_get_file (or fd_table_close), exit_on_file (whose ASSERT wants
\* the lock held also when the file was found), the file call with its
\* result val stored in f->eax by sys_filesize and sys_tell, lock_release.
\* found: whether the descriptor names an open file.
sys_fd_fs(t, found, val) ==
  /\ Running /\ th[t].pc = "sys_fd_fs"
  /\ val \in (IF found THEN FdResults(th[t].num) ELSE {0})
  /\ LET r == exit_on_file(filesys_lock, t) IN
     IF filesys_lock # t
     THEN /\ machine' = "panic"
          /\ UNCHANGED <<filesys_lock, th>>
     ELSE IF found
     THEN /\ filesys_lock' = NoThread
          /\ th' = [th EXCEPT ![t] = [@ EXCEPT !.pc = "sh_unpin",
                        !.eax = IF th[t].num \in {SYS_FILESIZE, SYS_TELL} THEN val ELSE @]]
          /\ UNCHANGED machine
     ELSE /\ filesys_lock' = r.lock
          /\ th' = IF r.panic THEN th ELSE ExitOn(t)
          /\ machine' = IF r.panic THEN "panic" ELSE machine
  /\ UNCHANGED <<spt, pagedir, ftable, ftable_lock, free_pages, swap_slots>>
  /\ UNCHANGED swapvars

\* sys_read line 392-393 / sys_write line 440: the buffer is validated.
sys_read(t) ==
  /\ Running /\ th[t].pc = "sys_read"
  /\ th' = IF th[t].args[0] = STDOUT_FILENO THEN ExitOn(t)
           ELSE [th EXCEPT ![t] = CallRange(@, th[t].args[1], th[t].args[2], "sys_rw_v")]
  /\ UNCHANGED <<spt, pagedir, ftable, ftable_lock, free_pages, swap_slots, filesys_lock, machine>>
  /\ UNCHANGED swapvars

sys_write(t) ==
  /\ Running /\ th[t].pc = "sys_write"
  /\ th' = [th EXCEPT ![t] = CallRange(@, th[t].args[1], th[t].args[2], "sys_rw_v")]
  /\ UNCHANGED <<spt, pagedir, ftable, ftable_lock, free_pages, swap_slots, filesys_lock, machine>>
  /\ UNCHANGED swapvars

\* The console descriptor of the call: STDIN for READ, STDOUT for WRITE.
ConsoleFd(num) == IF num = SYS_READ THEN STDIN_FILENO ELSE STDOUT_FILENO

\* Exit on a bad buffer; console I/O, or lock_acquire for file I/O.
sys_rw_v(t) ==
  /\ Running /\ th[t].pc = "sys_rw_v"
  /\ IF ~th[t].ok
     THEN /\ th' = ExitOn(t)
          /\ UNCHANGED filesys_lock
     ELSE IF th[t].args[0] = ConsoleFd(th[t].num)
     THEN /\ th' = Goto(t, "sys_rw_io")
          /\ UNCHANGED filesys_lock
     ELSE /\ filesys_lock = NoThread
          /\ filesys_lock' = t
          /\ th' = Goto(t, "sys_rw_fs")
  /\ UNCHANGED <<spt, pagedir, ftable, ftable_lock, free_pages, swap_slots, machine>>
  /\ UNCHANGED swapvars

\* The keys input_getc may return.
Keys == {1}

\* f->eax = length and unpin_range (lines 403 and 432, 446 and 474).
RwIoReturn(t, L) ==
  /\ spt' = [spt EXCEPT ![t] = unpin_range(@, th[t].args[1], th[t].args[2]).s]
  /\ th' = [L EXCEPT ![t] = [@ EXCEPT !.pc = "sh_unpin", !.eax = th[t].args[2],
                                      !.read_bytes = 0, !.copied = 0]]
  /\ UNCHANGED machine

\* Console I/O on the validated buffer.  sys_read lines 399-403: one pass
\* of the loop, in which input_getc waits for a key c and the key is stored
\* in buffer[i]; read_bytes stands for the loop counter i.  sys_write line
\* 445: putbuf reads the buffer; copied is how far it has come.  A byte in
\* a page that has lost its mapping faults in the kernel, and the access is
\* retried after the load.  After the last byte the call returns.
sys_rw_io(t, c) ==
  /\ Running /\ th[t].pc = "sys_rw_io"
  /\ LET buffer == th[t].args[1]
         length == th[t].args[2]
         i == IF th[t].num = SYS_READ THEN th[t].read_bytes ELSE th[t].copied
         n == IF th[t].num = SYS_READ THEN 1 ELSE length - i
         miss == Unmapped(t, buffer + i, n)
     IN IF ~(i < length)
        THEN /\ RwIoReturn(t, th)
             /\ UNCHANGED <<pagedir, kmem>>
        ELSE IF miss # {}
        THEN LET u == Min(miss)
                 pre == IF u > buffer + i THEN u - (buffer + i) ELSE 0
                 L == IF pre > 0 THEN [Disturb(th) EXCEPT ![t].copied = i + pre] ELSE th
             IN /\ KernelFault(t, u, "sys_rw_io", L, spt)
                /\ pagedir' = TouchUser(t, buffer + i, pre)
                /\ UNCHANGED kmem
        ELSE /\ pagedir' = TouchUser(t, buffer + i, n)
             /\ kmem' = IF th[t].num = SYS_READ THEN StoreUser(t, buffer + i, n, c) ELSE kmem
             /\ IF i + n < length
                THEN /\ th' = [Disturb(th) EXCEPT ![t].read_bytes = i + n]
                     /\ UNCHANGED <<spt, machine>>
                ELSE RwIoReturn(t, Disturb(th))
  /\ UNCHANGED <<ftable, ftable_lock, free_pages, swap_slots, filesys_lock>>
  /\ UNCHANGED <<swap_device, sw>>

\* sys_read lines 412-417 / sys_write lines 455-460 under the lock: the file
\* is looked up; without one the buffer is unpinned and the process exits.
sys_rw_fs(t, found) ==
  /\ Running /\ th[t].pc = "sys_rw_fs"
  /\ IF found
     THEN /\ th' = [th EXCEPT ![t] = [@ EXCEPT !.pc = "sys_rw_loop", !.read_bytes = 0,
                                               !.moved = 0]]
          /\ UNCHANGED <<spt, filesys_lock, machine>>
     ELSE LET r == exit_on_file(filesys_lock, t) IN
          /\ spt' = [spt EXCEPT ![t] = unpin_range(@, th[t].args[1], th[t].args[2]).s]
          /\ filesys_lock' = r.lock
          /\ th' = IF r.panic THEN th ELSE ExitOn(t)
          /\ machine' = IF r.panic THEN "panic" ELSE machine
  /\ UNCHANGED <<pagedir, ftable, ftable_lock, free_pages, swap_slots>>
  /\ UNCHANGED swapvars

\* What file_read / file_write (filesys/file.c) may return when asked for
\* size bytes: any count from 0 to size.
FileResults(size) == 0 .. size

\* file_read (file, buffer, size) returning tmp: tmp bytes of the file
\* (zeros here) are copied to the buffer of t, through its page directory.
\* The result is the memory and the page directories afterwards.
file_read(t, buffer, tmp) ==
  [kmem |-> StoreUser(t, buffer, tmp, 0), pagedir |-> TouchUser(t, buffer, tmp)]

\* file_write (file, buffer, size) returning tmp: tmp bytes are read from
\* the buffer of t.
file_write(t, buffer, tmp) ==
  [kmem |-> kmem, pagedir |-> TouchUser(t, buffer, tmp)]

\* The byte count kept as the last chunk instead of the running total.
rw_last_chunk(read_bytes, tmp) == tmp

\* Lines 426 / 469: read_bytes += tmp.
rw_advance(read_bytes, tmp) == read_bytes + tmp

\* Lines 418-427 / 461-470: one pass of the transfer loop; tmp is what
\* file_read / file_write returns.  The copy to or from the buffer faults in
\* the kernel, with the filesystem lock held, at a page that has lost its
\* mapping; the bytes before that page have been copied (copied counts
\* them) and the call goes on from there after the load.  The loop is left
\* when tmp is 0 or the count has reached length; lock_release follows
\* (lines 428 / 471).
sys_rw_chunk(t, tmp) ==
  /\ Running /\ th[t].pc = "sys_rw_loop"
  /\ LET length == th[t].args[2]
         read_bytes == th[t].read_bytes
         copied == th[t].copied
         a == th[t].args[1] + read_bytes + copied
         miss == Unmapped(t, a, tmp - copied)
     IN IF read_bytes < length /\ tmp # 0
        THEN /\ tmp \in FileResults(length - read_bytes)
             /\ tmp > copied
             /\ IF miss # {}
                THEN LET u == Min(miss)
                         pre == IF u > a THEN u - a ELSE 0
                         r == IF th[t].num = SYS_READ THEN file_read(t, a, pre)
                              ELSE file_write(t, a, pre)
                         L == IF pre > 0
                              THEN [Disturb(th) EXCEPT ![t].copied = copied + pre]
                              ELSE th
                     IN /\ KernelFault(t, u, "sys_rw_loop", L, spt)
                        /\ pagedir' = r.pagedir
                        /\ kmem' = r.kmem
                ELSE LET r == IF th[t].num = SYS_READ THEN file_read(t, a, tmp - copied)
                              ELSE file_write(t, a, tmp - copied)
                     IN /\ th' = [Disturb(th) EXCEPT ![t] =
                                     [@ EXCEPT !.read_bytes = rw_advance(read_bytes, tmp),
                                               !.moved = th[t].moved + tmp,
                                               !.copied = 0]]
                        /\ pagedir' = r.pagedir
                        /\ kmem' = r.kmem
                        /\ UNCHANGED <<spt, machine>>
             /\ UNCHANGED filesys_lock
        ELSE /\ tmp = 0 /\ copied = 0
             /\ th' = Goto(t, "sys_rw_ret")
             /\ filesys_lock' = NoThread
             /\ UNCHANGED <<spt, pagedir, machine, kmem>>
  /\ UNCHANGED <<ftable, ftable_lock, free_pages, swap_slots>>
  /\ UNCHANGED <<swap_device, sw>>

\* Lines 429-432 / 472-474: f->eax = read_bytes, then unpin_range.
sys_rw_ret(t) ==
  /\ Running /\ th[t].pc = "sys_rw_ret"
  /\ spt' = [spt EXCEPT ![t] = unpin_range(@, th[t].args[1], th[t].args[2]).s]
  /\ th' = [th EXCEPT ![t] = [@ EXCEPT !.pc = "sh_unpin", !.eax = th[t].read_bytes]]
  /\ UNCHANGED <<pagedir, ftable, ftable_lock, free_pages, swap_slots, filesys_lock, machine>>
  /\ UNCHANGED swapvars

\* ---------------------------------------------------------------- sys_mmap
\* pg_range_num: pages needed for length bytes.
pg_range_num(length) == (length + PGSIZE - 1) \div PGSIZE

\* Lines 527-543: the checks on the length and the address.
MmapChecks(addr, length) ==
  /\ length > 0
  /\ ~(addr = NULL \/ pg_ofs(addr) # 0 \/ ~is_user_vaddr(addr))
  /\ ~((addr + pg_range_num(length) * PGSIZE) % AddrMod > STACK_LIMIT)

\* A supp_pt_page_alloc_file that does not look for a descriptor already
\* installed at the page.
supp_pt_page_alloc_file_over(S, upage, file, ofs, bytes, mapid, writable) ==
  [s |-> [S EXCEPT ![upage] = [NewPte(file, mapid) EXCEPT !.ofs = ofs, !.bytes = bytes,
                                                          !.writable = writable]],
   ok |-> TRUE]

\* supp_pt_page_alloc_file (vm/page.c): fails when the page already has a
\* descriptor, else installs a file-backed one with the arguments given.
supp_pt_page_alloc_file(S, upage, file, ofs, bytes, mapid, writable) ==
  IF S[upage].loc # "none" THEN [s |-> S, ok |-> FALSE]
  ELSE [s |-> [S EXCEPT ![upage] = [NewPte(file, mapid) EXCEPT !.ofs = ofs, !.bytes = bytes,
                                                               !.writable = writable]],
        ok |-> TRUE]

\* The loop without the rollback: the descriptors installed before the
\* failure stay.
MmapRollbackNone(S, curr_page, i) == S

\* Lines 571-576: the descriptors installed so far are freed again.
RECURSIVE MmapRollback(_, _, _)
MmapRollback(S, curr_page, i) ==
  IF i = 0 THEN S
  ELSE LET prev == (curr_page + AddrMod - PGSIZE) % AddrMod IN
       MmapRollback([S EXCEPT ![prev] = NoPte], prev, i - 1)

\* Every page of the mapping takes a full page of the file.
mmap_bytes_page(length) == PGSIZE

\* Line 561: the bytes of the file that go to the next page.
mmap_bytes(length) == IF length > PGSIZE THEN PGSIZE ELSE length

\* Lines 557-585: the install loop; every descriptor is created writable
\* (the last argument of line 566).
RECURSIVE MmapInstall(_, _, _, _, _, _, _)
MmapInstall(S, mapid, curr_page, file, length, i, num_pages) ==
  IF i >= num_pages THEN [s |-> S, ok |-> TRUE]
  ELSE LET bytes == mmap_bytes(length)
           r == supp_pt_page_alloc_file(S, curr_page, file, i * PGSIZE, bytes, mapid, TRUE)
       IN IF ~r.ok THEN [s |-> MmapRollback(S, curr_page, i), ok |-> FALSE]
          ELSE MmapInstall(r.s, mapid, (curr_page + PGSIZE) % AddrMod, file, length - bytes,
                           i + 1, num_pages)

\* The error label, line 590-592.
MapFailed(t) == [th EXCEPT ![t] = [@ EXCEPT !.pc = "sh_unpin", !.eax = MAP_FAILED]]

\* The pages of S that have a descriptor.
SptKeys(S) == {u \in SptPages : S[u].loc # "none"}

\* Lines 517-524: unknown fd, else lock_acquire for file_length.
sys_mmap(t, found) ==
  /\ Running /\ th[t].pc = "sys_mmap"
  /\ IF ~found
     THEN /\ th' = [MapFailed(t) EXCEPT ![t].keys0 = SptKeys(spt[t])]
          /\ UNCHANGED filesys_lock
     ELSE /\ filesys_lock = NoThread
          /\ filesys_lock' = t
          /\ th' = [th EXCEPT ![t] = [@ EXCEPT !.pc = "mmap_len", !.file = FdFile,
                                               !.keys0 = SptKeys(spt[t])]]
  /\ UNCHANGED <<spt, pagedir, ftable, ftable_lock, free_pages, swap_slots, machine>>
  /\ UNCHANGED swapvars

\* Lines 525-543: file_length, lock_release, the checks.
mmap_len(t, length) ==
  /\ Running /\ th[t].pc = "mmap_len"
  /\ filesys_lock' = NoThread
  /\ th' = IF MmapChecks(th[t].args[1], length)
           THEN [th EXCEPT ![t] = [@ EXCEPT !.pc = "mmap_lock", !.length = length]]
           ELSE [MapFailed(t) EXCEPT ![t].length = length]
  /\ UNCHANGED <<spt, pagedir, ftable, ftable_lock, free_pages, swap_slots, machine>>
  /\ UNCHANGED swapvars

\* sys_mmap without line 546: file_reopen is called without the lock.
mmap_lock_skip(t) ==
  /\ Running /\ th[t].pc = "mmap_lock"
  /\ th' = Goto(t, "mmap_reopen")
  /\ UNCHANGED <<spt, pagedir, ftable, ftable_lock, free_pages, swap_slots, filesys_lock, machine>>
  /\ UNCHANGED swapvars

\* Line 546: lock_acquire before file_reopen.
mmap_lock(t) ==
  /\ Running /\ th[t].pc = "mmap_lock"
  /\ filesys_lock = NoThread
  /\ filesys_lock' = t
  /\ th' = Goto(t, "mmap_reopen")
  /\ UNCHANGED <<spt, pagedir, ftable, ftable_lock, free_pages, swap_slots, machine>>
  /\ UNCHANGED swapvars

\* What file_reopen may return: NULL or a new handle.
ReopenResults == {NULL, ReopenedFile}

\* Lines 547-552: file = file_reopen (file), lock_release, MAP_FAILED
\* without a handle.
mmap_reopen(t, file) ==
  /\ Running /\ th[t].pc = "mmap_reopen"
  /\ filesys_lock' = NoThread
  /\ th' = IF file = NULL THEN [MapFailed(t) EXCEPT ![t].file = NULL]
           ELSE [th EXCEPT ![t] = [@ EXCEPT !.pc = "mmap_install", !.file = file,
                                            !.reopened = TRUE]]
  /\ UNCHANGED <<spt, pagedir, ftable, ftable_lock, free_pages, swap_slots, machine>>
  /\ UNCHANGED swapvars

\* Lines 557-588, after the lock was released: the install loop with its
\* rollback, f->eax = mapid.
mmap_install(t) ==
  /\ Running /\ th[t].pc = "mmap_install"
  /\ LET addr == th[t].args[1]
         r == MmapInstall(spt[t], addr, addr, th[t].file, th[t].length, 0,
                          pg_range_num(th[t].length))
     IN /\ spt' = [spt EXCEPT ![t] = r.s]
        /\ th' = [th EXCEPT ![t] =
                    IF r.ok THEN [@ EXCEPT !.pc = "sh_unpin", !.eax = addr]
                    ELSE [@ EXCEPT !.pc = "mmap_fail"]]
  /\ UNCHANGED <<pagedir, ftable, ftable_lock, free_pages, swap_slots, filesys_lock, machine>>
  /\ UNCHANGED swapvars

\* Line 577: lock_acquire before file_close.
mmap_fail(t) ==
  /\ Running /\ th[t].pc = "mmap_fail"
  /\ filesys_lock = NoThread
  /\ filesys_lock' = t
  /\ th' = Goto(t, "mmap_close")
  /\ UNCHANGED <<spt, pagedir, ftable, ftable_lock, free_pages, swap_slots, machine>>
  /\ UNCHANGED swapvars

\* Lines 578-580 and 590-592: file_close, lock_release, MAP_FAILED.
mmap_close(t) ==
  /\ Running /\ th[t].pc = "mmap_close"
  /\ filesys_lock' = NoThread
  /\ th' = [MapFailed(t) EXCEPT ![t].reopened = FALSE, ![t].file = NULL]
  /\ UNCHANGED <<spt, pagedir, ftable, ftable_lock, free_pages, swap_slots, machine>>
  /\ UNCHANGED swapvars

\* sys_munmap: supp_pt_munmap destroys every descriptor of the mapping, or
\* fails when there is none.
sys_munmap(t) ==
  /\ Running /\ th[t].pc = "sys_munmap"
  /\ LET U == {u \in SptPages : spt[t][u].loc # "none" /\ spt[t][u].mapping = th[t].args[0]} IN
     IF U = {}
     THEN /\ th' = ExitOn(t)
          /\ UNCHANGED <<spt, pagedir, ftable, ftable_lock, free_pages, swap_slots, machine>>
     ELSE /\ PageFree(t, U)
          /\ th' = IF machine' = "panic" THEN th ELSE Goto(t, "sh_unpin")
  /\ UNCHANGED <<ftable_lock, filesys_lock>>
  /\ UNCHANGED swapvars

\* ------------------------------------------- swap manager with contents
\* The kernel page a thread hands to the swap manager.
Frame(t) == IF t = "p1" THEN 1 ELSE 2

\* The slots some thread of T has been given by swap_write_page, or is
\* loading: each belongs to one page, whose owner alone loads it.
SlotsHeldBy(T) ==
  {sw[t].slot : t \in {q \in T : sw[q].pc \in {"sw_io", "held", "sl_io", "sl_clear"}}}

\* A thread whose page is in swap reuses the frame for other data.
SwScribble(t, c) ==
  /\ Running /\ sw[t].pc = "held"
  /\ kmem[Frame(t)] # c
  /\ kmem' = [kmem EXCEPT ![Frame(t)] = c]
  /\ UNCHANGED <<spt, pagedir, ftable, ftable_lock, free_pages, swap_slots, filesys_lock, th, machine,
                 swap_device, sw>>

\* swap_write_page lines 158-163: a slot is claimed under swap_slots_lock;
\* PANIC when none is free.
swap_write_page(t) ==
  /\ Running /\ sw[t].pc = "idle"
  /\ LET r == bitmap_scan_and_flip(swap_slots) IN
     IF r.idx = BITMAP_ERROR
     THEN /\ machine' = "panic"
          /\ sw' = [sw EXCEPT ![t].pc = "sw_panic"]
          /\ UNCHANGED swap_slots
     ELSE /\ swap_slots' = r.bits
          /\ sw' = [sw EXCEPT ![t] = [SwIdle EXCEPT !.pc = "sw_io", !.slot = r.idx,
                                                    !.c = kmem[Frame(t)]]]
          /\ UNCHANGED machine
  /\ UNCHANGED <<spt, pagedir, ftable, ftable_lock, free_pages, filesys_lock, th, swap_device, kmem>>

\* Lines 166-172: one block_write; after the last one the index is returned.
sw_block_write(t) ==
  /\ Running /\ sw[t].pc = "sw_io"
  /\ swap_device' = [swap_device EXCEPT ![swap_sector(sw[t].slot, sw[t].i)] =
                        kmem[Frame(t)][sw[t].i]]
  /\ sw' = [sw EXCEPT ![t] = IF sw[t].i + 1 < sectors_per_page
                             THEN [@ EXCEPT !.i = sw[t].i + 1]
                             ELSE [@ EXCEPT !.i = 0, !.pc = "held"]]
  /\ UNCHANGED <<spt, pagedir, ftable, ftable_lock, free_pages, swap_slots, filesys_lock, th, machine, kmem>>

\* A swap_load_page that gives the slot back before it reads the sectors.
sl_call_clear_first(t, slot_index) ==
  /\ Running
  /\ sw[t].pc = "held" /\ slot_index = sw[t].slot
  /\ swap_slots' = [swap_slots EXCEPT ![slot_index] = FALSE]
  /\ sw' = [sw EXCEPT ![t] = [@ EXCEPT !.i = 0, !.own = TRUE, !.used = TRUE, !.pc = "sl_io"]]
  /\ UNCHANGED <<spt, pagedir, ftable, ftable_lock, free_pages, filesys_lock, th, machine,
                 swap_device, kmem>>

\* swap_load_page lines 180-184 for the slot the thread holds, or for an
\* index nobody holds.
sl_call(t, slot_index) ==
  /\ Running
  /\ \/ sw[t].pc = "held" /\ slot_index = sw[t].slot
     \/ sw[t].pc = "idle" /\ slot_index \notin SlotsHeldBy(Threads)
  /\ LET c == swap_load_check(swap_slots, slot_index)
         L == [sw[t] EXCEPT !.slot = slot_index, !.i = 0, !.own = (sw[t].pc = "held"),
                            !.used = (slot_index \in Slots /\ swap_slots[slot_index])]
     IN /\ sw' = [sw EXCEPT ![t] =
                    IF c = "ok" THEN [L EXCEPT !.pc = "sl_io"]
                    ELSE IF c = "false" THEN [L EXCEPT !.pc = "sl_ret", !.ret = FALSE]
                    ELSE [L EXCEPT !.pc = "sl_panic"]]
        /\ machine' = IF c = "panic" THEN "panic" ELSE machine
  /\ UNCHANGED <<spt, pagedir, ftable, ftable_lock, free_pages, swap_slots, filesys_lock, th,
                 swap_device, kmem>>

\* Lines 186-191: one block_read.
sl_block_read(t) ==
  /\ Running /\ sw[t].pc = "sl_io"
  /\ kmem' = [kmem EXCEPT ![Frame(t)][sw[t].i] = swap_device[swap_sector(sw[t].slot, sw[t].i)]]
  /\ sw' = [sw EXCEPT ![t] = IF sw[t].i + 1 < sectors_per_page
                             THEN [@ EXCEPT !.i = sw[t].i + 1]
                             ELSE [@ EXCEPT !.i = 0, !.pc = "sl_clear"]]
  /\ UNCHANGED <<spt, pagedir, ftable, ftable_lock, free_pages, swap_slots, filesys_lock, th, machine,
                 swap_device>>

\* Lines 192-196: the bit is cleared under the lock, true is returned.
sl_clear(t) ==
  /\ Running /\ sw[t].pc = "sl_clear"
  /\ swap_slots' = [swap_slots EXCEPT ![sw[t].slot] = FALSE]
  /\ sw' = [sw EXCEPT ![t] = [@ EXCEPT !.pc = "sl_ret", !.ret = TRUE]]
  /\ UNCHANGED <<spt, pagedir, ftable, ftable_lock, free_pages, filesys_lock, th, machine, swap_device, kmem>>

\* The page stays in swap: its owner goes on and may swap out another one.
sw_keep(t) ==
  /\ Running /\ sw[t].pc = "held"
  /\ sw' = [sw EXCEPT ![t] = SwIdle]
  /\ UNCHANGED <<spt, pagedir, ftable, ftable_lock, free_pages, swap_slots, filesys_lock, th, machine,
                 swap_device, kmem>>

\* The caller of swap_load_page goes on.
sl_return(t) ==
  /\ Running /\ sw[t].pc = "sl_ret"
  /\ sw' = [sw EXCEPT ![t] = SwIdle]
  /\ UNCHANGED <<spt, pagedir, ftable, ftable_lock, free_pages, swap_slots, filesys_lock, th, machine,
                 swap_device, kmem>>

\* ------------------------------------------------------------------ Next
SysAll ==
  {SYS_HALT, SYS_EXIT, SYS_EXEC, SYS_WAIT, SYS_CREATE, SYS_REMOVE, SYS_OPEN,
   SYS_FILESIZE, SYS_READ, SYS_WRITE, SYS_SEEK, SYS_TELL, SYS_CLOSE, SYS_MMAP,
   SYS_MUNMAP, SYS_CHDIR}

\* The argument words of Spec and SpecFs: the buffer is unaligned and short
\* (the transfers of whole pages are those of SpecRw).
AllArgValues == Fds \cup Strs \cup {0, 2, PGSIZE, DataPage - 1}

\* User-mode execution touching the pages U.
FaultStep(t, U) ==
  \/ \E u \in U : UserAccess(t, u)
  \/ \E u \in U : page_fault(t, u)
  \/ pf_done(t)

\* The frame allocator, the swap manager and process exit.
PagingStep(t) ==
  \/ frame_alloc(t)
  \/ fa_push(t)
  \/ fa_evict(t)
  \/ frame_evict(t)
  \/ fe_scan(t)
  \/ fe_lookup(t)
  \/ fe_claim(t)
  \/ fe_write(t)
  \/ fe_pte(t)
  \/ fl_load(t)
  \/ swap_load_page(t)
  \/ swap_load_clear(t)
  \/ fl_install(t)
  \/ thread_exit(t)

\* The syscall gate for a program issuing the calls P.
GateStep(t, P) ==
  \/ \E esp \in Esps : P # {} /\ syscall_handler(t, esp)
  \/ \E num \in P : (num = SYS_MMAP => Len(ftable) < MaxFtable) /\ sh_num(t, num, 0)
  \/ \E v \in AllArgValues : sh_arg(t, v, FALSE)
  \/ sh_unpin(t)
  \/ ensure_valid_range(t)
  \/ evr_loaded(t)
  \/ sys_exit(t)
  \/ sys_fd(t)
  \/ \E found \in BOOLEAN, val \in {0, 1, PGSIZE + 1} : sys_fd_fs(t, found, val)

\* The handlers that take a path name.
PathStep(t, Ls) ==
  \/ ensure_valid_string(t)
  \/ evs_loaded(t)
  \/ \E slen \in Ls : sys_path(t, slen)
  \/ sys_path_v(t)
  \/ \E res \in {-1, 0, 1, 2} : sys_path_fs(t, res)
  \/ sys_path_unpin(t)

\* sys_mmap.
MmapStep(t) ==
  \/ \E found \in BOOLEAN : sys_mmap(t, found)
  \/ \E length \in FileLens : mmap_len(t, length)
  \/ mmap_lock(t)
  \/ \E file \in ReopenResults : mmap_reopen(t, file)
  \/ mmap_install(t)
  \/ mmap_fail(t)
  \/ mmap_close(t)

\* sys_read and sys_write on buffers of up to two bytes.
RwStep(t) ==
  \/ sys_read(t)
  \/ sys_write(t)
  \/ sys_rw_v(t)
  \/ \E c \in Keys : sys_rw_io(t, c)
  \/ \E found \in BOOLEAN : sys_rw_fs(t, found)
  \/ \E tmp \in 0 .. 2 : sys_rw_chunk(t, tmp)
  \/ sys_rw_ret(t)

\* The remaining handlers.
BodyStep(t) ==
  \/ sys_halt(t)
  \/ \E status \in WaitResults : sys_wait(t, status)
  \/ sys_default(t)
  \/ \E pid \in ExecResults : sys_exec_v(t, pid)
  \/ RwStep(t)
  \/ sys_munmap(t)

\* Spec: p1 issues any system call, then unmaps what it may have mapped,
\* and touches a mappable page; p2 pages its data page in and out.
Prog(t) ==
  IF t # "p1" THEN {}
  ELSE IF th[t].calls <= 1 THEN SysAll
  ELSE {SYS_MUNMAP}
Touch(t) == IF t = "p1" THEN {PGSIZE} ELSE {DataPage}

Next ==
  \E t \in Threads :
    \/ FaultStep(t, Touch(t))
    \/ PagingStep(t)
    \/ fl_file(t)
    \/ GateStep(t, Prog(t))
    \/ PathStep(t, StrLens)
    \/ MmapStep(t)
    \/ BodyStep(t)

Spec == Init /\ [][Next]_vars

\* SpecFs: both threads are inside the gate, each for one system call, using
\* the filesystem lock: p1 creates a file of a valid name, seeks, maps, reads
\* or writes a file, p2 closes one.
ProgFs(t) ==
  IF t = "p1" THEN {SYS_CREATE, SYS_SEEK, SYS_MMAP, SYS_READ, SYS_WRITE} ELSE {SYS_CLOSE}

NextFs ==
  \E t \in Threads :
    \/ PagingStep(t)
    \/ pf_done(t)
    \/ (th[t].pc = "idle" => th[t].calls = 0) /\ GateStep(t, ProgFs(t))
    \/ PathStep(t, {0})
    \/ MmapStep(t)
    \/ RwStep(t)

SpecFs == Init /\ [][NextFs]_vars

\* SpecVm: two user programs under memory pressure, touching three pages in
\* all; malloc may fail.
TouchVm(t) == IF t = "p1" THEN {DataPage, STACK_LIMIT} ELSE {DataPage}

NextVm ==
  \E t \in Threads :
    \/ FaultStep(t, TouchVm(t))
    \/ PagingStep(t)
    \/ frame_alloc_nomem(t)

SpecVm == Init /\ [][NextVm]_vars

\* SpecNum: p1 traps with any 32-bit word as the system call number: an
\* implemented call, a directory call, or a number past the table; p2 runs
\* in user mode and faults its stack page in.
DirCalls == {SYS_CHDIR, SYS_MKDIR, SYS_READDIR, SYS_ISDIR, SYS_INUMBER}
BeyondTable == {Len(syscall_arg_num), RAM_BYTES, INT32_MAX, UINT32_MAX}
ProgNum(t) == IF t = "p1" THEN {SYS_WAIT} \cup DirCalls \cup BeyondTable ELSE {}
\* p1 also traps with esp two bytes below the top of the address space.
EspNum(t) == IF t = "p1" THEN {DataPage, STACK_LIMIT, AddrMod - 2} ELSE {}

NextNum ==
  \E t \in Threads :
    \/ PagingStep(t)
    \/ t = "p2" /\ page_fault(t, STACK_LIMIT)
    \/ pf_done(t)
    \/ \E esp \in EspNum(t) : syscall_handler(t, esp)
    \/ \E num \in ProgNum(t), stray \in StrayBytes \cup {KFAULT} : sh_num(t, num, stray)
    \/ \E smash \in BOOLEAN : sh_arg(t, 0, smash)
    \/ sh_unpin(t)
    \/ ensure_valid_range(t)
    \/ evr_loaded(t)
    \/ sys_exit(t)
    \/ \E status \in WaitResults : sys_wait(t, status)
    \/ sys_default(t)

SpecNum == Init /\ [][NextNum]_vars

\* SpecRw: p1 issues one system call, reading or writing a file or the
\* console, nothing or two pages at an unaligned buffer, in chunks of any
\* size; p2 runs in user mode and faults its stack page in.
ProgRw(t) == IF t = "p1" THEN {SYS_READ, SYS_WRITE} ELSE {}
RwArgs == {STDIN_FILENO, 2, DataPage + 1, 2 * PGSIZE}
ChunkSizes == {0, PGSIZE - 1, PGSIZE, 2 * PGSIZE}

NextRw ==
  \E t \in Threads :
    \/ PagingStep(t)
    \/ t = "p2" /\ page_fault(t, STACK_LIMIT)
    \/ pf_done(t)
    \/ ProgRw(t) # {} /\ th[t].calls = 0 /\ syscall_handler(t, STACK_LIMIT)
    \/ \E num \in ProgRw(t) : sh_num(t, num, 0)
    \/ \E v \in RwArgs : sh_arg(t, v, FALSE)
    \/ sh_unpin(t)
    \/ ensure_valid_range(t)
    \/ evr_loaded(t)
    \/ sys_exit(t)
    \/ sys_read(t)
    \/ sys_write(t)
    \/ sys_rw_v(t)
    \/ \E c \in Keys : sys_rw_io(t, c)
    \/ \E found \in BOOLEAN : sys_rw_fs(t, found)
    \/ \E tmp \in ChunkSizes : sys_rw_chunk(t, tmp)
    \/ sys_rw_ret(t)

SpecRw == Init /\ [][NextRw]_vars

\* SpecMap: every process has its stack page; p1 has no other page, p2 has
\* the page at PGSIZE too and traps with esp inside it.  Both map files of
\* up to three pages (a length below half the address space, as an int
\* has) at any page, the stack page included.
InitMap ==
  /\ spt = [t \in Threads |-> [u \in SptPages |->
              IF u = STACK_LIMIT \/ (t = "p2" /\ u = PGSIZE)
              THEN NewPte(NULL, NoMapping) ELSE NoPte]]
  /\ pagedir = [t \in Threads |-> [u \in UPages |-> NoPd]]
  /\ ftable = << >>
  /\ ftable_lock = NoThread
  /\ free_pages = KPages
  /\ swap_slots = [s \in Slots |-> FALSE]
  /\ filesys_lock = NoThread
  /\ th = [t \in Threads |-> IdleLocals]
  /\ machine = "running"
  /\ swap_device = [n \in Sectors |-> 0]
  /\ kmem = [k \in KPages |-> ZeroPage]
  /\ sw = [t \in Threads |-> SwIdle]

EspMap(t) == IF t = "p1" THEN STACK_LIMIT ELSE PGSIZE
MapArgs == {2, STACK_LIMIT} \cup MapAddrs
MapLens == {0, 1, PGSIZE + 1, 2 * PGSIZE + 1}

NextMap ==
  \E t \in Threads :
    \/ frame_alloc(t)
    \/ fa_push(t)
    \/ fl_load(t)
    \/ syscall_handler(t, EspMap(t))
    \/ sh_num(t, SYS_MMAP, 0)
    \/ \E v \in MapArgs : sh_arg(t, v, FALSE)
    \/ sh_unpin(t)
    \/ ensure_valid_range(t)
    \/ evr_loaded(t)
    \/ \E found \in BOOLEAN : sys_mmap(t, found)
    \/ \E length \in MapLens : mmap_len(t, length)
    \/ mmap_lock(t)
    \/ \E file \in ReopenResults : mmap_reopen(t, file)
    \/ mmap_install(t)
    \/ mmap_fail(t)
    \/ mmap_close(t)

SpecMap == InitMap /\ [][NextMap]_vars

\* SpecOne: the kernel was booted with a user pool of a single page; two
\* user programs touch their data and stack pages.
InitOne ==
  /\ spt = [t \in Threads |-> [u \in SptPages |->
              IF u = DataPage \/ u = STACK_LIMIT THEN NewPte(NULL, NoMapping) ELSE NoPte]]
  /\ pagedir = [t \in Threads |-> [u \in UPages |-> NoPd]]
  /\ ftable = << >>
  /\ ftable_lock = NoThread
  /\ free_pages = {Min(KPages)}
  /\ swap_slots = [s \in Slots |-> FALSE]
  /\ filesys_lock = NoThread
  /\ th = [t \in Threads |-> IdleLocals]
  /\ machine = "running"
  /\ swap_device = [n \in Sectors |-> 0]
  /\ kmem = [k \in KPages |-> ZeroPage]
  /\ sw = [t \in Threads |-> SwIdle]

NextOne ==
  \E t \in Threads :
    \/ FaultStep(t, TouchVm(t))
    \/ frame_alloc(t)
    \/ fa_push(t)
    \/ fa_evict(t)
    \/ frame_evict(t)
    \/ fe_scan(t)
    \/ fe_lookup(t)
    \/ fe_claim(t)
    \/ fe_write(t)
    \/ fe_pte(t)
    \/ fl_load(t)
    \/ swap_load_page(t)
    \/ swap_load_clear(t)
    \/ fl_install(t)

SpecOne == InitOne /\ [][NextOne]_vars

\* SpecLive: two user programs touching three pages in all, more than the
\* frames (two, or one when the kernel was booted with a one-page pool);
\* malloc may fail; a process whose page cannot be loaded exits.
\* Scheduling is fair: a thread inside the kernel (in the fault handler, in
\* frame_alloc, in frame_evict, in the load or in thread_exit) keeps being
\* run, also while it waits for a lock that is free again and again.
\* User-mode accesses are not forced.
InitLive == Init \/ InitOne

NextLive ==
  \E t \in Threads :
    \/ FaultStep(t, TouchVm(t))
    \/ PagingStep(t)
    \/ frame_alloc_nomem(t)

KernelStep(t) ==
  \/ pf_done(t)
  \/ PagingStep(t)
  \/ frame_alloc_nomem(t)

SpecLive ==
  /\ InitLive /\ [][NextLive]_vars
  /\ \A t \in Threads : SF_vars(KernelStep(t))

\* SpecSwap: two threads call swap_write_page and swap_load_page; p1 swaps
\* out pages of any content and may leave several of them in swap;
\* swap_load_page is also called with indices nobody holds.
NextSwap ==
  \E t \in Threads :
    \/ \E c \in UserPages : t = "p1" /\ SwScribble(t, c)
    \/ swap_write_page(t)
    \/ sw_block_write(t)
    \/ \E slot_index \in 0 .. (num_swap_slots + 1) : sl_call(t, slot_index)
    \/ sl_block_read(t)
    \/ sl_clear(t)
    \/ sl_return(t)
    \/ t = "p1" /\ sw_keep(t)

SpecSwap == Init /\ [][NextSwap]_vars

\* ------------------------------------------------------------ properties
\* The pages of t whose descriptor has the pinned flag set.
PinnedPages(t) == {u \in UPages : spt[t][u].loc # "none" /\ spt[t][u].pinned}

\* No operation is in progress.
Quiescent == Running /\ \A t \in Threads : th[t].pc \in {"idle", "exited"}

\* t is in the body of READ or WRITE: its buffer has been validated and not
\* yet unpinned.
InBody(t) == th[t].pc \in {"sys_rw_io", "sys_rw_fs", "sys_rw_loop", "sys_rw_ret"}

\* The places where a failed validation forces the exit.
ValidationPcs == {"sh_num", "sh_arg", "sys_rw_v", "sys_exec_v", "sys_path_v"}

\* The places where a handler forces the exit after validation succeeded.
HandlerPcs == {"sys_fd_fs", "sys_rw_fs", "sys_default", "sys_munmap"}

ForcedExit(t) == th[t].pc = "sys_exit" /\ th[t].status = -1

\* C1: once ensure_valid_range (p, n) has succeeded for a process, no
\* eviction selects a frame backing a page of [p, p+n) of that process
\* before the matching unpin_range.
C1_PinExemption ==
  [][\A t \in Threads :
       (th[t].pc = "fe_scan" /\ th'[t].pc = "fe_lookup") =>
          \A q \in Threads :
             InBody(q) =>
                ~(th'[t].vt = q /\ th'[t].vu \in RangePages(th[q].args[1], th[q].args[2]))]_vars

\* C2: in every quiescent state the (process, upage, kpage) triples of the
\* resident page descriptors are exactly those of the frame table entries,
\* one entry each.
C2_FrameSptBijection ==
  Quiescent =>
    LET D == {<<t, u, k>> \in Threads \X UPages \X KPages :
                 spt[t][u].loc = FRAME /\ spt[t][u].kpage = k}
        F == {<<ftable[i].t, ftable[i].upage, ftable[i].kpage>> : i \in 1..Len(ftable)}
    IN D = F /\ Cardinality(F) = Len(ftable)

\* C3: in every quiescent state a swap slot's bit is set iff exactly one
\* page descriptor is in swap with that slot index.
C3_SwapBitmapAgreement ==
  Quiescent =>
    \A s \in Slots :
       swap_slots[s] <=>
         Cardinality({<<t, u>> \in Threads \X UPages :
                         spt[t][u].loc = SWAP /\ spt[t][u].swap_slot_index = s}) = 1

\* C4: when a validation fails part-way through a system call, no page is
\* left pinned when the process exits with status -1.
C4_FailedValidationUnpins ==
  \A t \in Threads :
     (ForcedExit(t) /\ th[t].exit_at \in ValidationPcs) => PinnedPages(t) = {}

\* C5: when READ or WRITE returns normally, no page of the caller is still
\* pinned, for every buffer and length.
C5_PinUnpinSymmetry ==
  [][\A t \in Threads :
       (th[t].pc = "sh_unpin" /\ th[t].num \in {SYS_READ, SYS_WRITE} /\ th'[t].pc = "idle")
          => PinnedPages(t)' = {}]_vars

\* C6: on a forced exit after validation succeeded, every page pinned during
\* the call, the stack pages of the arguments included, has been unpinned.
C6_ForcedExitUnpins ==
  \A t \in Threads :
     (ForcedExit(t) /\ th[t].exit_at \in HandlerPcs) => PinnedPages(t) = {}

\* C7: a thread entering sys_exit / thread_exit does not hold filesys_lock.
C7_ExitWithoutLock ==
  \A t \in Threads :
     th[t].pc \in {"sys_exit", "thread_exit", "exited"} => filesys_lock # t

\* A forced exit decided while the lock was held.
C7_Witness ==
  \E t \in Threads : ForcedExit(t) /\ th[t].exit_at \in {"sys_fd_fs", "sys_rw_fs"}

\* The places where a handler is inside a filesystem call.
FsCallPcs ==
  {"sys_path_fs", "sys_fd_fs", "sys_rw_fs", "sys_rw_loop", "mmap_len", "mmap_reopen",
   "mmap_close"}

\* C8: every filesystem call of a handler is made holding filesys_lock, so at
\* most one thread is in one, and a handler that returns has released it.
C8_FsCallsSerialised ==
  /\ \A t \in Threads : th[t].pc \in FsCallPcs => filesys_lock = t
  /\ \A t \in Threads : th[t].pc \in {"idle", "sh_unpin"} => filesys_lock # t
  /\ Cardinality({t \in Threads : th[t].pc \in FsCallPcs}) <= 1

\* One thread is between two file_read or file_write calls of the transfer
\* loop, having moved a chunk, while another waits at lock_acquire.
C8_Witness ==
  /\ th["p1"].pc = "sys_rw_loop" /\ th["p1"].read_bytes > 0
  /\ th["p2"].pc = "sys_fd"

\* C9: frame_alloc never hands a null kpage to its caller.
C9_FrameAllocInfallible ==
  \A t \in Threads : th[t].pc = "fl_load" => th[t].kpage # NULL

\* C10: a page given back by frame_free has no frame table entry, and no
\* physical page has two entries.
C10_FrameFreeRemovesEntry ==
  /\ \A i \in 1..Len(ftable) : ftable[i].kpage \notin free_pages
  /\ \A i, j \in 1..Len(ftable) : i # j => ftable[i].kpage # ftable[j].kpage

\* C11: swap_load_page returns false exactly when the index is out of range
\* or the slot is not in use, and never panics on an index equal to the
\* number of slots.
C11_SwapLoadResult ==
  \A t \in Threads :
     /\ sw[t].pc # "sl_panic"
     /\ sw[t].pc = "sl_ret" =>
           (sw[t].ret = FALSE <=> (sw[t].slot >= num_swap_slots \/ ~sw[t].used))

\* C12: concurrent swap_write_page calls never hand out the same slot, a slot
\* handed out is marked used, and the call panics only when every slot is used.
C12_SwapWriteDistinct ==
  /\ \A t, q \in Threads :
        (t # q /\ sw[t].pc \in {"sw_io", "held"} /\ sw[q].pc \in {"sw_io", "held"})
           => sw[t].slot # sw[q].slot
  /\ \A t \in Threads : sw[t].pc \in {"sw_io", "held"} => swap_slots[sw[t].slot]
  /\ \A t \in Threads : sw[t].pc = "sw_panic" => \A s \in Slots : swap_slots[s]

\* Two calls of swap_write_page are writing their sectors at the same time.
C12_Witness == \A t \in Threads : sw[t].pc = "sw_io"

\* C13: a page written by swap_write_page comes back unchanged from
\* swap_load_page of the slot returned, whatever happened to other slots.
C13_SwapRoundTrip ==
  \A t \in Threads :
     (sw[t].pc = "sl_ret" /\ sw[t].own) => (sw[t].ret /\ kmem[Frame(t)] = sw[t].c)

\* A non-zero page has come back while the other thread holds a slot with
\* different content.
C13_Witness ==
  \E t, q \in Threads :
     /\ t # q /\ sw[t].pc = "sl_ret" /\ sw[t].own /\ sw[t].c # ZeroPage
     /\ sw[q].pc = "held" /\ sw[q].c # sw[t].c

Implemented == SysAll \ DirCalls

\* C14: a system call number that is not one of the fifteen implemented
\* calls ends the process with status -1, and the argument count is only
\* ever read from an entry of syscall_arg_num[] that exists.
C14_UnknownCallExits ==
  \A t \in Threads :
     /\ InTable(th[t].num)
     /\ th[t].pc # "sh_smash"
     /\ (th[t].num \notin Implemented /\ th[t].pc \in {"sys_exit", "thread_exit", "exited"})
           => th[t].status = -1
     /\ th[t].num \notin Implemented
           => th[t].pc \notin ({HandlerPc(n) : n \in Implemented \ {SYS_EXIT}} \cup {"sh_unpin"})

\* t has returned from the transfer loop of READ or WRITE on a regular file.
RwReturned(t) ==
  /\ th[t].pc = "sh_unpin" /\ th[t].num \in {SYS_READ, SYS_WRITE}
  /\ th[t].args[0] # ConsoleFd(th[t].num)

\* C15: the transfer loop of READ / WRITE on a regular file terminates (each
\* pass that stays in the loop moves the count up, and the count never
\* passes len); the value returned is the sum of the chunks file_read /
\* file_write reported and is at most len; the filesystem lock is held
\* during the loop and released before the result is stored.
C15_TransferLoop ==
  /\ [](\A t \in Threads :
         /\ th[t].pc = "sys_rw_loop" => (filesys_lock = t /\ th[t].read_bytes <= th[t].args[2])
         /\ th[t].pc = "sys_rw_ret" => filesys_lock # t
         /\ RwReturned(t) => (th[t].eax = th[t].moved /\ th[t].eax <= th[t].args[2]
                                /\ filesys_lock # t))
  /\ [][\A t \in Threads :
          (th[t].pc = "sys_rw_loop" /\ th'[t].pc = "sys_rw_loop" /\ th'[t] # th[t])
             => th'[t].read_bytes > th[t].read_bytes]_vars

\* A transfer of two pages has returned one byte short, after two chunks
\* and a chunk of size zero.
C15_Witness ==
  \E t \in Threads :
     /\ RwReturned(t) /\ th[t].args[2] = 2 * PGSIZE
     /\ th[t].eax = 2 * PGSIZE - 1

\* t is about to return from sys_mmap; f->eax holds the result.
MmapReturned(t) == th[t].pc = "sh_unpin" /\ th[t].num = SYS_MMAP

RECURSIVE SumBytes(_, _)
SumBytes(f, n) == IF n = 0 THEN 0 ELSE f[n - 1] + SumBytes(f, n - 1)

\* C16: whenever MMAP fails (a precondition fails, file_reopen fails, or a
\* target page already has a descriptor) the process has exactly the
\* descriptors it had before the call, and the handle reopened for the
\* mapping has been closed when MAP_FAILED is returned.
C16_MmapFailureAtomic ==
  \A t \in Threads :
     /\ th[t].pc \in {"mmap_fail", "mmap_close"} => SptKeys(spt[t]) = th[t].keys0
     /\ (MmapReturned(t) /\ th[t].eax = MAP_FAILED)
           => (SptKeys(spt[t]) = th[t].keys0 /\ ~th[t].reopened)

\* The first page of a mapping was free, a later one was not: the
\* descriptors installed have been taken back and file_close is next.
C16_Witness ==
  \E t \in Threads :
     /\ th[t].pc = "mmap_close" /\ th[t].args[1] \notin th[t].keys0
     /\ pg_round_down(th[t].args[1]) = th[t].args[1]
     /\ SptKeys(spt[t]) = th[t].keys0

\* C17: a successful MMAP (fd, addr) of a file of length L installs exactly
\* ceil(L / PGSIZE) file-backed writable descriptors at addr, addr + PGSIZE,
\* ...; descriptor i has offset i * PGSIZE and min(PGSIZE, L - i * PGSIZE)
\* bytes, between 1 and PGSIZE, summing to L; all carry the mapping id addr
\* and the reopened file, and addr is returned.
C17_MmapDescriptors ==
  \A t \in Threads :
     (MmapReturned(t) /\ th[t].eax # MAP_FAILED) =>
        LET addr == th[t].args[1]
            L == th[t].length
            n == (L + PGSIZE - 1) \div PGSIZE
            page == [i \in 0 .. (n - 1) |-> addr + i * PGSIZE]
            want == [i \in 0 .. (n - 1) |->
                       IF L - i * PGSIZE < PGSIZE THEN L - i * PGSIZE ELSE PGSIZE]
        IN /\ th[t].eax = addr /\ L > 0
           /\ {u \in SptPages : spt[t][u].loc # "none" /\ spt[t][u].mapping = addr}
                 = {page[i] : i \in 0 .. (n - 1)}
           /\ \A i \in 0 .. (n - 1) :
                 /\ page[i] \in UPages
                 /\ spt[t][page[i]].loc = FILE /\ spt[t][page[i]].file = th[t].file
                 /\ th[t].file = ReopenedFile
                 /\ spt[t][page[i]].writable
                 /\ spt[t][page[i]].ofs = i * PGSIZE
                 /\ spt[t][page[i]].bytes = want[i]
                 /\ spt[t][page[i]].bytes \in 1 .. PGSIZE
           /\ SumBytes([i \in 0 .. (n - 1) |-> spt[t][page[i]].bytes], n) = L

\* A file of one page and one byte has been mapped.
C17_Witness ==
  \E t \in Threads :
     /\ MmapReturned(t) /\ th[t].eax = th[t].args[1] /\ th[t].length = PGSIZE + 1
     /\ spt[t][th[t].args[1] + PGSIZE].bytes = 1
     /\ spt[t][th[t].args[1] + PGSIZE].writable

C19_EvictionLiveness ==
  \A t \in Threads :
     /\ (th[t].pc = "frame_alloc") ~> (th[t].pc = "fl_load" /\ th[t].kpage # NULL)
     /\ (th[t].pc = "frame_alloc") ~> (th[t].pc = "pf_done" /\ th[t].ok)

\* Every frame of the frame table backs a page whose descriptor is pinned.
AllPinned ==
  /\ ftable # << >>
  /\ \A i \in 1 .. Len(ftable) : spt[ftable[i].t][ftable[i].upage].pinned

\* C20: when frame_alloc needs an eviction and every frame in the frame
\* table is pinned, frame_evict selects no victim: it panics or returns an
\* error, and does not go on to swap a pinned frame out.
C20_NoPinnedVictim ==
  [][\A t \in Threads :
       (th[t].pc = "fe_scan" /\ AllPinned)
          => th'[t].pc \notin {"fe_lookup", "fe_claim", "fe_write", "fe_pte", "fa_push",
                               "fl_load"}]_vars

\* C21: in every reachable state a page descriptor with pinned = true is
\* resident in a frame, the states between the setting of the flag in
\* ensure_valid_ptr and the end of supp_pt_force_load, and the state after
\* a failed load, included.
C21_PinnedResident ==
  \A t \in Threads : \A u \in UPages :
     (HasPte(t, u) /\ spt[t][u].pinned) => spt[t][u].loc = FRAME

\* A step in which t makes a pass of the victim scan.
ScanPass(t) ==
  /\ th[t].pc = "fe_scan" /\ ftable # << >>
  /\ (th'[t].exams # th[t].exams \/ th'[t].pc = "fe_lookup" \/ ftable' # ftable)

\* C22: frame_evict examines the frames from the front of the frame table.
\* A frame whose accessed bit is set when examined is not the victim: its
\* bit is cleared and it goes to the back.  The first frame examined with
\* the bit clear is the victim: it leaves the table and its mapping is
\* cleared.  The frames not examined keep their order and their bits.
\* With n frames and no page accessed during the scan, the scan ends
\* within 2n examinations.
C22_SecondChance ==
  [][\A t \in Threads :
       ScanPass(t) =>
          LET frame == Head(ftable)
              n == Len(ftable)
          IN /\ IF pagedir_is_accessed(pagedir, frame.t, frame.upage)
                THEN /\ th'[t].pc = "fe_scan"
                     /\ ftable' = Append(Tail(ftable), frame)
                     /\ pagedir' = [pagedir EXCEPT ![frame.t][frame.upage].accessed = FALSE]
                ELSE /\ th'[t].pc = "fe_lookup"
                     /\ th'[t].kpage = frame.kpage /\ th'[t].vt = frame.t
                     /\ th'[t].vu = frame.upage
                     /\ ftable' = Tail(ftable)
                     /\ pagedir' = [pagedir EXCEPT ![frame.t][frame.upage] = NoPd]
             /\ ~th[t].disturbed => th'[t].exams <= n + 1
             /\ (th'[t].pc = "fe_lookup" /\ ~th[t].disturbed) => th'[t].exams <= 2 * n]_vars

\* Every frame had its accessed bit set when the scan began and no page was
\* accessed since: the scan went round the whole table and took the frame
\* that was at the front.
C22_Witness ==
  \E t \in Threads :
     /\ th[t].pc = "fe_lookup" /\ ~th[t].disturbed
     /\ ftable # << >> /\ th[t].exams = Len(ftable) + 2

\* C23: the victim of an eviction that is file-backed goes back to its file
\* (no swap slot is claimed for it and its descriptor never becomes SWAP);
\* only zero-backed and previously swapped pages are written to swap.
C23_FileVictimToFile ==
  /\ \A t \in Threads : \A u \in UPages :
        (HasPte(t, u) /\ spt[t][u].file # NULL) => spt[t][u].loc # SWAP
  /\ \A q \in Threads :
        (th[q].pc \in {"fe_write", "fe_pte"} /\ th[q].pte /\ HasPte(th[q].vt, th[q].vu))
           => spt[th[q].vt][th[q].vu].file = NULL

\* C24: in every eviction the victim's page is saved and its descriptor
\* updated (location and swap slot) before its hardware mapping is
\* cleared, and the frame handed on to the caller of frame_alloc is not
\* released to the pool.
C24_EvictionOrder ==
  [][\A q \in Threads :
       /\ (th[q].pc = "fe_scan" /\ th'[q].pc = "fe_lookup") =>
             LET t == th'[q].vt
                 u == th'[q].vu
             IN (pagedir[t][u].present /\ ~pagedir'[t][u].present)
                   => (HasPte(t, u) /\ spt[t][u].loc = SWAP
                         /\ swap_slots[spt[t][u].swap_slot_index])
       /\ (th[q].pc = "fa_push" /\ th[q].vt # NoThread /\ th'[q].pc = "fl_load")
             => th'[q].kpage \notin free_pages']_vars

\* C25: the frame table entry made for a page that is demand-loaded with
\* the descriptor's pinned flag pre-set carries pinned = true, and while
\* the page is resident the entry's flag equals the descriptor's flag.
C25_FramePinnedAgrees ==
  \A i \in 1 .. Len(ftable) :
     LET f == ftable[i] IN
     HasPte(f.t, f.upage) =>
        /\ (th[f.t].pc = "fl_load" /\ th[f.t].upage = f.upage /\ th[f.t].kpage = f.kpage)
              => f.pinned = spt[f.t][f.upage].pinned
        /\ (spt[f.t][f.upage].loc = FRAME /\ spt[f.t][f.upage].kpage = f.kpage)
              => f.pinned = spt[f.t][f.upage].pinned

\* The places where a thread is inside pointer validation: the loops of
\* ensure_valid_range / ensure_valid_string, and supp_pt_force_load with
\* the frame_alloc and frame_evict it calls, up to the point where the
\* frame is filled.
ValidatingPcs ==
  {"evr", "evs", "evr_loaded", "evs_loaded", "frame_alloc", "fa_push", "frame_evict",
   "fe_scan", "fe_lookup", "fe_claim", "fe_write", "fe_pte", "fl_load", "swap_load_page",
   "swap_load_clear", "fl_install"}

\* C26: a thread inside pointer validation, or inside the force_load,
\* frame_alloc and eviction reached from it or from a page fault, does not
\* hold the filesystem lock: every handler validates before it takes the
\* lock, and a thread that must evict never holds it.
C26_NoValidationUnderLock ==
  \A t \in Threads : th[t].pc \in ValidatingPcs => filesys_lock # t

\* C27: while swap_load_page reads a slot the slot's bit stays set, so no
\* concurrent swap_write_page claims or writes that slot, and the page
\* read is the page that was written there, not that of a later eviction.
C27_LoadKeepsSlot ==
  \A t \in Threads :
     /\ sw[t].pc \in {"sl_io", "sl_clear"} =>
           /\ swap_slots[sw[t].slot]
           /\ \A q \in Threads \ {t} : sw[q].pc = "sw_io" => sw[q].slot # sw[t].slot
     /\ (sw[t].pc = "sl_clear" /\ sw[t].own) => kmem[Frame(t)] = sw[t].c

\* One thread is between two sector reads while the other, having claimed
\* a slot, is writing a page of different content.
C27_Witness ==
  \E t, q \in Threads :
     /\ t # q /\ sw[t].pc = "sl_io" /\ sw[t].i > 0 /\ sw[t].own
     /\ sw[q].pc = "sw_io" /\ sw[q].c # sw[t].c

\* Page p of t has been validated and is still pinned.
ValidatedPage(t, p) == p \in UPages /\ HasPte(t, p) /\ spt[t][p].pinned

\* C28: when the gate reads the system call number or an argument word,
\* every page holding a byte of the word has been validated and pinned;
\* when ensure_valid_string goes on scanning, every page from the start of
\* the string to the byte reached has been validated and pinned.
C28_ValidateBeforeRead ==
  \A t \in Threads :
     /\ (th[t].pc = "sh_num" /\ th[t].ok)
           => \A p \in WordPages(th[t].esp) : ValidatedPage(t, p)
     /\ (th[t].pc = "sh_arg" /\ th[t].ok)
           => \A p \in WordPages((th[t].esp + (th[t].i + 1) * WordSize) % AddrMod) :
                 ValidatedPage(t, p)
     /\ (th[t].pc = "evs" /\ th[t].pos > 0)
           => \A p \in UPages :
                 (pg_round_down(th[t].ptr) <= p /\ p <= th[t].curr_page) => ValidatedPage(t, p)

\* C29: whenever a thread enters the victim selection of frame_evict (it
\* found the user pool empty in frame_alloc and has taken ftable_lock) the
\* frame table is not empty, also while other threads hold victims they
\* have taken out of the table and not yet put back.
C29_EvictTableNonEmpty ==
  \A t \in Threads :
     (Running /\ th[t].pc = "fe_scan") => ftable # << >>

\* C30: the owner of a victim never runs (in user mode, in validation or
\* in fault handling) while another thread's frame_evict has taken the
\* page's frame out of the frame table and cleared its mapping but the
\* page's descriptor still says FRAME.
C30_EvictionAtomic ==
  \A q \in Threads : \A t \in Threads \ {q} :
     (th[q].pc \in {"fe_lookup", "fe_claim", "fe_write", "fe_pte"} /\ th[q].vt = t /\ th[t].pc \in {"idle", "evr", "evs"}
        /\ HasPte(t, th[q].vu))
        => ~(/\ spt[t][th[q].vu].loc = FRAME
             /\ ~pagedir[t][th[q].vu].present
             /\ \A i \in 1 .. Len(ftable) : ftable[i].kpage # th[q].kpage)

====
